---- MODULE Spec2Model ----
(***************************************************************************)
(* A model of bot.py: the quiz engine (per-user streak, 24-hour lock,      *)
(* one-time award, coupon ledger) and the booking dialogue manager with    *)
(* its finalizer.                                                          *)
(*                                                                         *)
(* Scheduling follows asyncio: a handler runs without interruption up to   *)
(* its next `await`; every `await` of a send is a point where the handler  *)
(* is suspended, other handlers run, and the send either is delivered or   *)
(* raises.  One action models one such uninterrupted segment.              *)
(***************************************************************************)
EXTENDS Integers, Sequences, FiniteSets, TLC

\* ------------------------------------------------------------------ bounds
\* the users, and the quiz handler invocations in flight at one time
MaxUsers == 2
MaxHandlers == 2
\* the clock: ticks below one second, and how far the clock is followed
TicksPerSecond == 2
MaxJumps == 1
\* the universal_router invocations in flight at one time
MaxRouters == 2
\* messages are followed while bookings.csv holds fewer rows than this
MaxBookings == 2
\* coupons are issued while the ledger holds fewer rows than this
MaxCoupons == 2

\* ------------------------------------------------------- program constants
LockHours == 24
StreakGoal == 3
CodeWidth == 6
BotId == 0

\* ADMIN_CHAT_ID: the chat of the operator
ADMIN_CHAT_ID == 100

Users == 1..MaxUsers
\* Message.from_user of a message the bot itself sent (the message a button
\* is attached to, CallbackQuery.message) is the bot's own account.
Ids == Users \cup {BotId}
Handlers == 1..MaxHandlers
Routers == 1..MaxRouters
\* the dicts that can be referred to at one time
Refs == 1..(MaxUsers + MaxRouters)

LockTicks == LockHours * 3600 * TicksPerSecond
JumpTicks == LockTicks - 1

\* an empty cell of a table ("" in memory, a missing value once read back)
NoVal == -1
\* the text "nan": what str() makes of a missing value read from a table
NanVal == -2

\* ------------------------------------------------------------- the catalog
\* QUIZ, read once at start-up from quiz_template.csv: one question with the
\* a/b/c/d columns and a letter in `correct`, one with option1..4 and the
\* option's text in `correct`, one without any option, one whose `correct`
\* matches no option.  The rows with active = 1 are the ones drawn.
Catalog ==
    << [id |-> 1, a |-> "Rome", b |-> "Bern", c |-> "", d |-> "",
        option1 |-> "", option2 |-> "", option3 |-> "", option4 |-> "",
        correct |-> "B", active |-> 1],
       [id |-> 2, a |-> "", b |-> "", c |-> "", d |-> "",
        option1 |-> "Oslo", option2 |-> "Riga", option3 |-> "", option4 |-> "",
        correct |-> "OSLO", active |-> 0],
       [id |-> 3, a |-> "", b |-> "", c |-> "", d |-> "",
        option1 |-> "", option2 |-> "", option3 |-> "", option4 |-> "",
        correct |-> "a", active |-> 0],
       [id |-> 4, a |-> "Lima", b |-> "Kyiv", c |-> "", d |-> "",
        option1 |-> "", option2 |-> "", option3 |-> "", option4 |-> "",
        correct |-> "Pisa", active |-> 0] >>

\* str.lower() on the catalog's vocabulary
Lower(s) ==
    CASE s = "A" -> "a" [] s = "B" -> "b" [] s = "C" -> "c" [] s = "D" -> "d"
      [] s = "Rome" -> "rome" [] s = "Bern" -> "bern" [] s = "Oslo" -> "oslo"
      [] s = "Riga" -> "riga" [] s = "Lima" -> "lima" [] s = "Kyiv" -> "kyiv"
      [] s = "OSLO" -> "oslo" [] s = "Pisa" -> "pisa"
      [] OTHER -> s

\* pick_quiz_question: the rows df.sample(1) draws from
pick_quiz_question ==
    LET all == DOMAIN Catalog
        active == {i \in all : Catalog[i].active = 1}
    IN  IF active # {} THEN active ELSE all

make_qid(row) == row.id

QIds == {make_qid(Catalog[i]) : i \in DOMAIN Catalog}

\* the option buttons of a row, as <<label, text>> pairs in order
OptionsList(row) ==
    LET abcd == SelectSeq(<< <<"A", row.a>>, <<"B", row.b>>,
                             <<"C", row.c>>, <<"D", row.d>> >>,
                          LAMBDA p : p[2] # "")
        opts == SelectSeq(<< <<"A", row.option1>>, <<"B", row.option2>>,
                             <<"C", row.option3>>, <<"D", row.option4>> >>,
                          LAMBDA p : p[2] # "")
    IN  IF abcd # <<>> THEN abcd ELSE opts

\* the letter registered as correct for a row that has options
CorrectLetter(row) ==
    LET cr == Lower(row.correct)
        ol == OptionsList(row)
        hits == {i \in DOMAIN ol : Lower(ol[i][2]) = cr}
    IN  IF cr \in {"a", "b", "c", "d"} THEN cr
        ELSE IF hits # {}
             THEN Lower(ol[CHOOSE i \in hits : \A j \in hits : i <= j][1])
             ELSE Lower(ol[1][1])

\* the letters on the buttons sent for question id q
ButtonLetters(q) ==
    UNION {{Lower(OptionsList(Catalog[i])[k][1]) :
                k \in DOMAIN OptionsList(Catalog[i])} :
           i \in {j \in DOMAIN Catalog : make_qid(Catalog[j]) = q}}

\* ------------------------------------------------------------------ clock
\* isoformat() without timespec: the part of a second is kept
IsoSeconds_Micro(t) == t

\* datetime.isoformat(timespec="seconds") followed by fromisoformat: the
\* part of a second is dropped
IsoSeconds(t) == t - (t % TicksPerSecond)

\* ------------------------------------------------------------ quiz tables
\* A row of quiz_users.csv.  The columns last_played_at (and issued_at,
\* username, full_name of the ledger) are written and never read by the
\* program; they are not followed.
DefaultState ==
    [streak |-> 0, locked |-> NoVal, awarded |-> 0, qid |-> 0]

VARIABLES
    now,          \* the wall clock, in ticks
    quizUsers,    \* quiz_users.csv: user id -> row
    coupons,      \* coupons_generated.csv: the rows, in order
    QUIZ_STATE,   \* question id -> correct letter ("" when absent)
    handlers,     \* the quiz handler invocations in flight
    shown,        \* the question ids whose buttons were delivered to the chat
    lastMiss,     \* history: per user, when the last incorrect answer was given
    hist,         \* history: the users who played, the question ids evaluated
                  \* since they were last presented, the id presented last,
                  \* the dicts from which a reservation row was written
    BOOK_STATE,   \* user id -> the dict of the user's draft (0 when absent)
    drafts,       \* the dicts: reference -> draft
    bookings,     \* bookings.csv: the rows, in order
    routers,      \* the universal_router invocations in flight
    probe,        \* a text handed to parse_booking_phrase, and what it returned
    nlu           \* per text that can arrive, what the extractors return for it

quizVars == <<now, quizUsers, coupons, QUIZ_STATE, handlers, shown, lastMiss, hist>>
bookVars == <<BOOK_STATE, drafts, bookings, routers>>
vars == <<quizVars, bookVars, probe, nlu>>

\* a text cell written by to_csv and read back by read_csv: "" and "nan"
\* both come back as a missing value
CsvText(x) == IF x = NanVal THEN NoVal ELSE x

\* str(value or ""): a missing value is truthy and prints as "nan"
StrOrEmpty(x) == IF x = NoVal THEN NanVal ELSE x

get_user_quiz_state(file, uid) ==
    IF uid \in DOMAIN file
    THEN [file[uid] EXCEPT !.locked = StrOrEmpty(@)]
    ELSE DefaultState

set_user_quiz_state(file, uid, st) ==
    [id \in DOMAIN file \cup {uid} |->
        IF id = uid
        THEN [st EXCEPT !.locked = CsvText(@)]
        ELSE file[id]]

\* ---------------------------------------------------------- coupon ledger
\* a code is a text of decimal digits, kept as the sequence of its digits
Pow10(k) == 10 ^ k

\* f"{n:06d}"
ZeroPad(n) == [i \in 1..CodeWidth |-> (n \div Pow10(CodeWidth - i)) % 10]

\* str(n) of a non-negative integer: no leading zeros
IntToStr(n) ==
    LET k == CHOOSE w \in 1..(CodeWidth + 1) :
                 /\ n < Pow10(w)
                 /\ (w = 1 \/ n >= Pow10(w - 1))
    IN  [i \in 1..k |-> (n \div Pow10(k - i)) % 10]

\* read_csv on a column of digit texts: each cell parsed as an integer
RECURSIVE ParseInt(_)
ParseInt(s) ==
    IF s = <<>> THEN 0
    ELSE 10 * ParseInt(SubSeq(s, 1, Len(s) - 1)) + s[Len(s)]

\* load_coupons_gen: the rows with the code column as read_csv types it
load_coupons_gen(file) ==
    [i \in DOMAIN file |-> [file[i] EXCEPT !.code = ParseInt(@)]]

\* the values random.randint(0, 999999) is followed for
RandDraws == {7, 100000}

\* datetime.now().strftime("%H%M%S")
TimeCode(t) ==
    LET secs == (t \div TicksPerSecond) % 86400
        hh == secs \div 3600
        mm == (secs % 3600) \div 60
        ss == secs % 60
    IN  << hh \div 10, hh % 10, mm \div 10, mm % 10, ss \div 10, ss % 10 >>

\* generate_unique_coupon_code: the codes a call may return.  A draw is
\* returned when its text is not among the texts of the codes read back; the
\* time-derived code is returned when every draw of the loop was among them,
\* which needs a code in the ledger that a draw can equal.
generate_unique_coupon_code(file, t) ==
    LET df == load_coupons_gen(file)
        existing == {IntToStr(df[i].code) : i \in DOMAIN df}
        fresh == {ZeroPad(r) : r \in {x \in RandDraws : ZeroPad(x) \notin existing}}
        exhausted == \E r \in RandDraws : ZeroPad(r) \in existing
    IN  fresh \cup (IF exhausted THEN {TimeCode(t)} ELSE {})

\* issue_coupon_to_user, after the code is generated: the ledger is read,
\* the row appended, and the whole table written back (to_csv prints the
\* integer cells of the old rows and the text of the new one)
issue_coupon_to_user(file, code, uid, t) ==
    LET df == load_coupons_gen(file)
    IN  [i \in DOMAIN df |-> [df[i] EXCEPT !.code = IntToStr(@)]]
        \o << [code |-> code, user |-> uid] >>

\* ----------------------------------------------------------------- handlers
Idle ==
    [pc |-> "idle", kind |-> "none", user |-> 0, out |-> "", arg |-> 0,
     qid |-> 0, ret |-> "", code |-> <<>>, st |-> DefaultState]

\* message.from_user.id as start_quiz_for_user reads it: the sender of a
\* text message is the user; the message passed by a callback handler
\* (call.message) was sent by the bot
FromUserId(rec) == IF rec.kind = "text" THEN rec.user ELSE BotId

\* the handler is suspended in `await message.answer(...)` with message
\* `out` and its payload `arg`
Pend(rec, pc, out, arg) == [rec EXCEPT !.pc = pc, !.out = out, !.arg = arg]

FreeHandlers == {h \in Handlers : handlers[h].pc = "idle"}
FirstFree == CHOOSE h \in FreeHandlers : \A g \in FreeHandlers : h <= g

\* start_quiz_for_user from `row = pick_quiz_question()` to its send, for
\* the caller uid whose state is st and with the table as written so far
start_quiz_pick(h, rec, uid, st, file) ==
    IF Catalog = <<>>
    THEN /\ handlers' = [handlers EXCEPT ![h] = Pend(rec, "start_send", "no_questions", 0)]
         /\ quizUsers' = file
         /\ UNCHANGED QUIZ_STATE
    ELSE \E i \in pick_quiz_question :
           LET row == Catalog[i]
               qid == make_qid(row)
               st2 == [st EXCEPT !.qid = qid]
           IN  IF OptionsList(row) = <<>>
               THEN /\ handlers' = [handlers EXCEPT ![h] =
                                       Pend(rec, "start_send", "no_options", 0)]
                    /\ quizUsers' = file
                    /\ UNCHANGED QUIZ_STATE
               ELSE /\ QUIZ_STATE' = [QUIZ_STATE EXCEPT ![qid] = CorrectLetter(row)]
                    /\ quizUsers' = set_user_quiz_state(file, uid, st2)
                    /\ handlers' = [handlers EXCEPT ![h] =
                                       Pend(rec, "start_send", "question", qid)]

\* start_quiz_for_user up to its send, run by handler h whose record
\* (with the caller's continuation) is rec.  The wait message is sent inside
\* the try block of the lock check: the handler keeps the state it read.
start_quiz_for_user(h, rec) ==
    LET uid == FromUserId(rec)
        st == get_user_quiz_state(quizUsers, uid)
        lockSet == st.locked # NoVal
        locked == lockSet /\ st.locked # NanVal /\ now < st.locked
        st1 == IF lockSet THEN [st EXCEPT !.locked = NoVal] ELSE st
        file1 == IF lockSet THEN set_user_quiz_state(quizUsers, uid, st1)
                 ELSE quizUsers
    IN  IF st.awarded = 1
        THEN /\ handlers' = [handlers EXCEPT ![h] = Pend(rec, "start_send", "awarded", 0)]
             /\ UNCHANGED <<quizUsers, QUIZ_STATE>>
        ELSE IF locked
        THEN /\ handlers' = [handlers EXCEPT ![h] =
                    [Pend(rec, "start_send", "wait", st.locked) EXCEPT !.st = st]]
             /\ UNCHANGED <<quizUsers, QUIZ_STATE>>
        ELSE start_quiz_pick(h, rec, uid, st1, file1)

\* the wait message raised: the except clause of the lock check clears the
\* lock in the state the handler read before the send, writes it, and the
\* attempt goes on to a question
start_quiz_except(h, rec) ==
    LET uid == FromUserId(rec)
        st1 == [rec.st EXCEPT !.locked = NoVal]
    IN  start_quiz_pick(h, [rec EXCEPT !.st = DefaultState], uid, st1,
                        set_user_quiz_state(quizUsers, uid, st1))

\* universal_router on a text that carries a quiz keyword and nothing for a
\* booking, from a user with no open draft: only the quiz branch acts
universal_router_quiz(u) ==
    /\ FreeHandlers # {}
    /\ start_quiz_for_user(FirstFree, [Idle EXCEPT !.kind = "text", !.user = u])
    /\ hist' = [hist EXCEPT !.players = @ \cup {u}]
    /\ UNCHANGED <<bookVars, probe, nlu, now, coupons, shown, lastMiss>>

\* cb_quiz: the quiz button of the start menu
cb_quiz(u) ==
    /\ FreeHandlers # {}
    /\ start_quiz_for_user(FirstFree, [Idle EXCEPT !.kind = "menu", !.user = u])
    /\ hist' = [hist EXCEPT !.players = @ \cup {u}]
    /\ UNCHANGED <<bookVars, probe, nlu, now, coupons, shown, lastMiss>>

\* st["awarded"] = 1
MarkAwarded(st) == [st EXCEPT !.awarded = 1]

\* cb_quiz_answer up to its first send: user u clicks the button `opt` of
\* question id q.  The users share one chat (a group): a button can be
\* clicked once its message was delivered there, by any user, at any time.
cb_quiz_answer(u, q, opt) ==
    /\ FreeHandlers # {}
    /\ q \in shown
    /\ opt \in ButtonLetters(q)
    /\ LET h == FirstFree
           rec == [Idle EXCEPT !.kind = "answer", !.user = u, !.qid = q]
           st == get_user_quiz_state(quizUsers, u)
           correct == QUIZ_STATE[q]
           hit == [st EXCEPT !.streak = @ + 1, !.qid = 0]
           won == MarkAwarded(hit)
           lock_until == now + LockTicks
           miss == [st EXCEPT !.streak = 0, !.qid = 0,
                              !.locked = IsoSeconds(lock_until)]
       IN  IF st.awarded = 1
           THEN /\ handlers' = [handlers EXCEPT ![h] = Pend(rec, "tail", "awarded", 0)]
                /\ UNCHANGED <<quizUsers, coupons, lastMiss>>
           ELSE IF correct = ""
           THEN /\ handlers' = [handlers EXCEPT ![h] = Pend(rec, "closed_send", "closed", 0)]
                /\ UNCHANGED <<quizUsers, coupons, lastMiss>>
           ELSE IF opt = correct
           THEN IF hit.streak >= StreakGoal
                THEN IF hit.awarded = 0
                     THEN \E code \in generate_unique_coupon_code(coupons, now) :
                            /\ Len(coupons) < MaxCoupons
                            /\ coupons' = issue_coupon_to_user(coupons, code, u, now)
                            /\ quizUsers' = set_user_quiz_state(
                                   set_user_quiz_state(quizUsers, u, hit), u, won)
                            /\ handlers' = [handlers EXCEPT ![h] =
                                   [Pend(rec, "prize_send", "prize", 0)
                                       EXCEPT !.code = code, !.st = won]]
                            /\ UNCHANGED lastMiss
                     ELSE /\ quizUsers' = set_user_quiz_state(quizUsers, u, hit)
                          /\ handlers' = [handlers EXCEPT ![h] =
                                 [Pend(rec, "notify_send", "prize_again", 0)
                                     EXCEPT !.st = hit]]
                          /\ UNCHANGED <<coupons, lastMiss>>
                ELSE /\ quizUsers' = set_user_quiz_state(quizUsers, u, hit)
                     /\ handlers' = [handlers EXCEPT ![h] =
                            Pend(rec, "right_send", "right", StreakGoal - hit.streak)]
                     /\ UNCHANGED <<coupons, lastMiss>>
           ELSE /\ quizUsers' = set_user_quiz_state(quizUsers, u, miss)
                /\ handlers' = [handlers EXCEPT ![h] =
                       Pend(rec, "wrong_send", "wrong", lock_until)]
                /\ lastMiss' = [lastMiss EXCEPT ![u] = now]
                /\ UNCHANGED coupons
    /\ hist' = [hist EXCEPT
           !.players = @ \cup {u},
           !.answered = IF get_user_quiz_state(quizUsers, u).awarded # 1
                           /\ QUIZ_STATE[q] # ""
                        THEN @ \cup {q} ELSE @]
    /\ UNCHANGED <<bookVars, probe, nlu, now, QUIZ_STATE, shown>>

\* a send raised.  Inside cb_quiz_answer's try the except block sends the
\* retry prompt; anywhere else (and when that prompt itself raises) the
\* exception reaches AdminErrorMiddleware, which reports it and returns.
Raised(rec) ==
    IF rec.kind = "answer" /\ rec.out # "retry"
    THEN [rec EXCEPT !.pc = "tail", !.out = "retry", !.arg = 0]
    ELSE [rec EXCEPT !.pc = "report", !.out = "error_report", !.arg = 0]

\* QUIZ_STATE.pop(qid, None)
Pop(table, q) == [table EXCEPT ![q] = ""]

\* the send at the end of start_quiz_for_user completes
start_send(h, ok) ==
    LET rec == handlers[h]
    IN  /\ rec.pc = "start_send"
        /\ IF ~ok /\ rec.out = "wait"
           THEN /\ start_quiz_except(h, rec)
                /\ UNCHANGED <<shown, hist>>
           ELSE IF ~ok
           THEN /\ handlers' = [handlers EXCEPT ![h] = Raised(rec)]
                /\ UNCHANGED <<quizUsers, QUIZ_STATE, shown, hist>>
           ELSE IF rec.out = "no_options"
           THEN /\ start_quiz_for_user(h, rec)
                /\ UNCHANGED <<shown, hist>>
           ELSE /\ handlers' = [handlers EXCEPT ![h] = Idle]
                /\ shown' = IF rec.out = "question"
                            THEN shown \cup {rec.arg}
                            ELSE shown
                /\ hist' = IF rec.out = "question"
                           THEN [hist EXCEPT !.answered = @ \ {rec.arg},
                                             !.last = rec.arg]
                           ELSE hist
                /\ QUIZ_STATE' = IF rec.ret = "chain" THEN Pop(QUIZ_STATE, rec.qid)
                                 ELSE QUIZ_STATE
                /\ UNCHANGED quizUsers
        /\ UNCHANGED <<bookVars, probe, nlu, now, coupons, lastMiss>>

\* "question closed" was sent: a new attempt is started
closed_send(h, ok) ==
    LET rec == handlers[h]
    IN  /\ rec.pc = "closed_send"
        /\ IF ok
           THEN start_quiz_for_user(h, [rec EXCEPT !.ret = "closed"])
           ELSE /\ handlers' = [handlers EXCEPT ![h] = Raised(rec)]
                /\ UNCHANGED <<quizUsers, QUIZ_STATE>>
        /\ UNCHANGED <<bookVars, probe, nlu, now, coupons, shown, lastMiss, hist>>

\* "right, N to go" was sent: the next attempt is chained, and the answered
\* question is popped once that attempt's send returns
right_send(h, ok) ==
    LET rec == handlers[h]
    IN  /\ rec.pc = "right_send"
        /\ IF ok
           THEN start_quiz_for_user(h, [rec EXCEPT !.ret = "chain"])
           ELSE /\ handlers' = [handlers EXCEPT ![h] = Raised(rec)]
                /\ UNCHANGED <<quizUsers, QUIZ_STATE>>
        /\ UNCHANGED <<bookVars, probe, nlu, now, coupons, shown, lastMiss, hist>>

\* the prize message with the code was sent: notify_admin_coupon follows
prize_send(h, ok) ==
    LET rec == handlers[h]
    IN  /\ rec.pc = "prize_send"
        /\ handlers' = [handlers EXCEPT ![h] =
               IF ok THEN Pend(rec, "notify_send", "admin_coupon", 0)
               ELSE Raised(rec)]
        /\ UNCHANGED <<bookVars, probe, nlu, now, quizUsers, coupons, QUIZ_STATE, shown, lastMiss, hist>>

\* the last send of the award branch returned (notify_admin_coupon swallows
\* its own failure; the "already received" message can raise): the streak is
\* reset from the handler's own copy of the state and the question is popped
notify_send(h, ok) ==
    LET rec == handlers[h]
    IN  /\ rec.pc = "notify_send"
        /\ IF ok \/ rec.out = "admin_coupon"
           THEN /\ quizUsers' = set_user_quiz_state(quizUsers, rec.user,
                                    [rec.st EXCEPT !.streak = 0])
                /\ QUIZ_STATE' = Pop(QUIZ_STATE, rec.qid)
                /\ handlers' = [handlers EXCEPT ![h] = Idle]
           ELSE /\ handlers' = [handlers EXCEPT ![h] = Raised(rec)]
                /\ UNCHANGED <<quizUsers, QUIZ_STATE>>
        /\ UNCHANGED <<bookVars, probe, nlu, now, coupons, shown, lastMiss, hist>>

\* the "missed, try again after ..." message was sent: the question is popped
wrong_send(h, ok) ==
    LET rec == handlers[h]
    IN  /\ rec.pc = "wrong_send"
        /\ IF ok
           THEN /\ QUIZ_STATE' = Pop(QUIZ_STATE, rec.qid)
                /\ handlers' = [handlers EXCEPT ![h] = Idle]
           ELSE /\ handlers' = [handlers EXCEPT ![h] = Raised(rec)]
                /\ UNCHANGED QUIZ_STATE
        /\ UNCHANGED <<bookVars, probe, nlu, now, quizUsers, coupons, shown, lastMiss, hist>>

\* a send after which the handler only returns (the terminal message, the
\* retry prompt)
tail_send(h, ok) ==
    LET rec == handlers[h]
    IN  /\ rec.pc = "tail"
        /\ handlers' = [handlers EXCEPT ![h] = IF ok THEN Idle ELSE Raised(rec)]
        /\ UNCHANGED <<bookVars, probe, nlu, now, quizUsers, coupons, QUIZ_STATE, shown, lastMiss, hist>>

\* report_error_to_admin: sent or not, the middleware returns
report_send(h) ==
    /\ handlers[h].pc = "report"
    /\ handlers' = [handlers EXCEPT ![h] = Idle]
    /\ UNCHANGED <<bookVars, probe, nlu, now, quizUsers, coupons, QUIZ_STATE, shown, lastMiss, hist>>

\* ------------------------------------------------------------ reservations
\* ------------------------------------------------------------------ texts
\* A message text is a string.  Each Cyrillic letter is written as one ASCII
\* character, so that positions, substrings and stems are those of the
\* Russian text:
\*   a b v g d e E Z z i j k l m n o p r s t u f h c C S y x w q   stand for
\*   а б в г д е ё ж з и й к л м н о п р с т у ф х ц ч ш ы ь ю я
\* and the capitals A, I for А, И.  "~" stands for the en dash and "^" for
\* the em dash.  Latin letters do not occur in the texts followed.
Digit == <<"0", "1", "2", "3", "4", "5", "6", "7", "8", "9">>

\* the character at position i of t, "" outside the text
At(t, i) == IF i >= 1 /\ i <= Len(t) THEN SubSeq(t, i, i) ELSE ""

IsDigit(c) == c \in {Digit[i] : i \in 1..10}
IsAlpha(c) ==
    c \in {"a", "b", "v", "g", "d", "e", "E", "Z", "z", "i", "j", "k", "l", "m",
           "n", "o", "p", "r", "s", "t", "u", "f", "h", "c", "C", "S", "y", "x",
           "w", "q", "A", "I"}
\* \w and \s of the re module
IsWord(c) == IsDigit(c) \/ IsAlpha(c) \/ c = "_"
IsSpace(c) == c = " "

\* \b before position i
Boundary(t, i) == IsWord(At(t, i - 1)) # IsWord(At(t, i))

\* the literal k stands at position i
StartsAt(t, i, k) ==
    i >= 1 /\ i + Len(k) - 1 <= Len(t) /\ SubSeq(t, i, i + Len(k) - 1) = k

\* `k in t`
Contains(t, k) == \E i \in 1..Len(t) : StartsAt(t, i, k)

Least(S) == CHOOSE x \in S : \A y \in S : x <= y
Largest(S) == CHOOSE x \in S : \A y \in S : x >= y

\* the length of the longest run of digits (of spaces) that starts at i
DigitsAt(t, i) ==
    Largest({k \in 0..(Len(t) + 1 - i) :
                \A j \in i..(i + k - 1) : IsDigit(At(t, j))})
SpacesAt(t, i) ==
    Largest({k \in 0..(Len(t) + 1 - i) :
                \A j \in i..(i + k - 1) : IsSpace(At(t, j))})

\* int() of the n digits that start at position i
RECURSIVE IntAt(_, _, _)
IntAt(t, i, n) ==
    LET DigitVal(c) == (CHOOSE d \in 1..10 : Digit[d] = c) - 1
    IN  IF n = 0 THEN 0
        ELSE IntAt(t, i, n - 1) * 10 + DigitVal(At(t, i + n - 1))

\* str.lower()
RECURSIVE LowerText(_)
LowerText(t) ==
    LET LowerChar(c) == CASE c = "A" -> "a" [] c = "I" -> "i" [] OTHER -> c
    IN  IF t = "" THEN "" ELSE LowerChar(Head(t)) \o LowerText(Tail(t))

\* str.strip()
Strip(t) ==
    LET inked == {i \in 1..Len(t) : ~IsSpace(At(t, i))}
    IN  IF inked = {} THEN "" ELSE SubSeq(t, Least(inked), Largest(inked))

\* normalize_text
normalize_text(t) == Strip(LowerText(t))

\* f"{n:02d}"
TwoDigits(n) == Digit[(n \div 10) + 1] \o Digit[(n % 10) + 1]

\* --------------------------------------------------------------- calendar
\* A date is its proleptic Gregorian ordinal (date.toordinal()).
DaysInMonth(y, m) ==
    LET IsLeap == y % 4 = 0 /\ (y % 100 # 0 \/ y % 400 = 0)
    IN  IF m = 2 THEN (IF IsLeap THEN 29 ELSE 28)
        ELSE IF m \in {4, 6, 9, 11} THEN 30 ELSE 31

\* every month is given 31 days
ValidDate_AnyMonth31(y, m, d) ==
    /\ y >= 1 /\ y <= 9999
    /\ m >= 1 /\ m <= 12
    /\ d >= 1 /\ d <= 31

\* datetime(y, m, d) does not raise ValueError
ValidDate(y, m, d) ==
    /\ y >= 1 /\ y <= 9999
    /\ m >= 1 /\ m <= 12
    /\ d >= 1 /\ d <= DaysInMonth(y, m)

RECURSIVE DaysBeforeMonth(_, _)
DaysBeforeMonth(y, m) ==
    IF m = 1 THEN 0 ELSE DaysBeforeMonth(y, m - 1) + DaysInMonth(y, m - 1)

DaysBeforeYear(y) ==
    LET p == y - 1
    IN  p * 365 + (p \div 4) - (p \div 100) + (p \div 400)

\* datetime(y, m, d).date()
Ordinal(y, m, d) == DaysBeforeYear(y) + DaysBeforeMonth(y, m) + d

\* date.year, date.month, date.day and date.weekday() (Monday is 0)
YearOf(o) ==
    LET guess == (o * 400) \div 146097 + 1
    IN  CHOOSE y \in (guess - 1)..(guess + 1) :
            DaysBeforeYear(y) < o /\ o <= DaysBeforeYear(y + 1)
MonthOf(o) ==
    CHOOSE m \in 1..12 :
        LET r == o - DaysBeforeYear(YearOf(o))
        IN  DaysBeforeMonth(YearOf(o), m) < r
            /\ r <= DaysBeforeMonth(YearOf(o), m) + DaysInMonth(YearOf(o), m)
DayOf(o) == o - DaysBeforeYear(YearOf(o)) - DaysBeforeMonth(YearOf(o), MonthOf(o))
Weekday(o) == (o + 6) % 7

\* ------------------------------------------------------------- extractors
\* WORDS_TO_NUM, in the order of the dict
WORDS_TO_NUM ==
    << <<"odin", 1>>, <<"odna", 1>>, <<"po odnomu", 1>>,
       <<"dvoe", 2>>, <<"dvoih", 2>>, <<"dvuh", 2>>, <<"vdvoem", 2>>,
       <<"vdvoEm", 2>>, <<"na dvoih", 2>>,
       <<"troe", 3>>, <<"troih", 3>>, <<"treh", 3>>, <<"trEh", 3>>,
       <<"vtroem", 3>>, <<"vtroEm", 3>>, <<"na troih", 3>>,
       <<"Cetvero", 4>>, <<"Cetveryh", 4>>, <<"Cetyreh", 4>>,
       <<"CetyrEh", 4>>, <<"vCetverom", 4>>, <<"na Cetveryh", 4>>,
       <<"pqtero", 5>>, <<"pqteryh", 5>>, <<"pqti", 5>>, <<"na pqteryh", 5>>,
       <<"Sestero", 6>>, <<"Sesteryh", 6>>, <<"Sesti", 6>>,
       <<"na Sesteryh", 6>>,
       <<"semero", 7>>, <<"semeryh", 7>>, <<"semi", 7>>, <<"na semeryh", 7>>,
       <<"vosxmero", 8>>, <<"vosxmeryh", 8>>, <<"vosxmi", 8>>,
       <<"na vosxmeryh", 8>>,
       <<"devqtero", 9>>, <<"devqteryh", 9>>, <<"devqti", 9>>,
       <<"na devqteryh", 9>>,
       <<"desqtero", 10>>, <<"desqteryh", 10>>, <<"desqti", 10>>,
       <<"na desqteryh", 10>> >>

\* WEEKDAY_FULL, in the order of the dict
WEEKDAY_FULL ==
    << <<"ponedelxnik", 0>>, <<"vtornik", 1>>, <<"sreda", 2>>,
       <<"Cetverg", 3>>, <<"pqtnica", 4>>, <<"subbota", 5>>,
       <<"voskresenxe", 6>> >>

\* PHONE_RE.search(t): the first and last position of the match, or <<>>.
\* A match starts at an optional "+" and a digit, runs over at least six
\* characters out of digits, spaces, "-", "(" and ")", and ends at a digit.
PhoneMatch(t) ==
    LET InClass(c) == IsDigit(c) \/ IsSpace(c) \/ c \in {"-", "(", ")"}
        First(i) == IF At(t, i) = "+" THEN i + 1 ELSE i
        Run(i) == Largest({k \in 0..(Len(t) + 1 - i) :
                              \A j \in i..(i + k - 1) : InClass(At(t, j))})
        Ends(i) == {e \in (First(i) + 7)..(First(i) + Run(First(i) + 1)) :
                       IsDigit(At(t, e))}
        starts == {i \in 1..Len(t) : IsDigit(At(t, First(i))) /\ Ends(i) # {}}
    IN  IF starts = {} THEN <<>>
        ELSE <<Least(starts), Largest(Ends(Least(starts)))>>

\* the digits of raw, and a "+" if raw starts with it
RECURSIVE Cleaned(_, _)
Cleaned(raw, i) ==
    IF i > Len(raw) THEN ""
    ELSE (IF IsDigit(At(raw, i)) \/ (At(raw, i) = "+" /\ i = 1)
          THEN At(raw, i) ELSE "") \o Cleaned(raw, i + 1)

\* extract_phone: "" stands for None
extract_phone(text) ==
    LET t == normalize_text(text)
        m == PhoneMatch(t)
        phone == Cleaned(Strip(SubSeq(t, m[1], m[2])), 1)
        digits == Cardinality({i \in 1..Len(phone) : IsDigit(At(phone, i))})
    IN  IF m = <<>> THEN ""
        ELSE IF digits >= 8 THEN phone ELSE ""

\* t.replace(ch, " ") for each ch of "+-() " and each digit
RECURSIVE Blanked(_)
Blanked(t) ==
    IF t = "" THEN ""
    ELSE (IF Head(t) \in {"+", "-", "(", ")", " "} \/ IsDigit(Head(t))
          THEN " " ELSE Head(t)) \o Blanked(Tail(t))

\* t.split()
RECURSIVE Split(_)
Split(t) ==
    LET s == SpacesAt(t, 1)
        inked == Least({k \in (s + 1)..(Len(t) + 1) : At(t, k) \in {" ", ""}})
    IN  IF s = Len(t) THEN <<>>
        ELSE <<SubSeq(t, s + 1, inked - 1)>> \o Split(SubSeq(t, inked, Len(t)))

\* " ".join(ws)
RECURSIVE Join(_)
Join(ws) ==
    IF ws = <<>> THEN ""
    ELSE IF Len(ws) = 1 THEN ws[1]
    ELSE ws[1] \o " " \o Join(Tail(ws))

\* extract_name_from_contact_text: "" stands for None
extract_name_from_contact_text(text, phone) ==
    LET t == IF phone # "" THEN Blanked(text) ELSE text
        \* w.isalpha()
        IsAlphaWord(w) == w # "" /\ \A i \in 1..Len(w) : IsAlpha(At(w, i))
    IN  IF text = "" THEN ""
        ELSE Strip(Join(SelectSeq(Split(t), IsAlphaWord)))

\* no word character stands at position i
NonWordAt(t, i) == ~IsWord(At(t, i))

\* re.search(r"\b(\d{1,2})[:.](\d{2})\b", t): <<hh, mm>> or <<>>
TimeColonMatch(t) ==
    LET Hit(i) ==
            LET n == DigitsAt(t, i)
            IN  /\ Boundary(t, i)
                /\ n \in {1, 2}
                /\ At(t, i + n) \in {":", "."}
                /\ DigitsAt(t, i + n + 1) = 2
                /\ NonWordAt(t, i + n + 3)
        hits == {i \in 1..Len(t) : Hit(i)}
        i0 == Least(hits)
        n0 == DigitsAt(t, i0)
    IN  IF hits = {} THEN <<>>
        ELSE <<IntAt(t, i0, n0), IntAt(t, i0 + n0 + 1, 2)>>

\* re.search(r"\b(?:v|k)\s*(\d{1,2})(?:\s*(?:Cas(?:a|ov)?|C))?\b", t):
\* <<hh>> or <<>>
TimeWordMatch(t) ==
    LET Hit(i) ==
            LET p == i + 1 + SpacesAt(t, i + 1)
                n == DigitsAt(t, p)
                q == p + n
                u == q + SpacesAt(t, q)
            IN  /\ Boundary(t, i)
                /\ At(t, i) \in {"v", "k"}
                /\ n \in {1, 2}
                /\ \/ \E unit \in {"Casa", "Casov", "Cas", "C"} :
                         StartsAt(t, u, unit) /\ NonWordAt(t, u + Len(unit))
                   \/ NonWordAt(t, q)
        hits == {i \in 1..Len(t) : Hit(i)}
        p0 == Least(hits) + 1 + SpacesAt(t, Least(hits) + 1)
    IN  IF hits = {} THEN <<>> ELSE <<IntAt(t, p0, DigitsAt(t, p0))>>

\* extract_time: "" stands for None
extract_time(text) ==
    LET t == normalize_text(text)
        m1 == TimeColonMatch(t)
        m2 == TimeWordMatch(t)
        late == Contains(t, "veCer") \/ Contains(t, "noC")
    IN  IF m1 # <<>> /\ m1[1] <= 23 /\ m1[2] <= 59
        THEN TwoDigits(m1[1]) \o ":" \o TwoDigits(m1[2])
        ELSE IF m2 # <<>> /\ m2[1] <= 23
        THEN TwoDigits(IF m2[1] <= 11 /\ late THEN m2[1] + 12 ELSE m2[1])
             \o ":00"
        ELSE ""

\* re.search(r"\b(\d{1,2})[./](\d{1,2})(?:[./](\d{2,4}))?\b", t):
\* <<d, mth, y>> with y = NoVal when the third group did not take part,
\* or <<>>
DateNumMatch(t) ==
    LET Year(q) ==
            \* the length of the third group when it takes part, else 0
            LET n3 == DigitsAt(t, q + 1)
            IN  IF At(t, q) \in {".", "/"} /\ n3 \in 2..4
                   /\ NonWordAt(t, q + 1 + n3)
                THEN n3 ELSE 0
        Hit(i) ==
            LET n1 == DigitsAt(t, i)
                n2 == DigitsAt(t, i + n1 + 1)
                q == i + n1 + 1 + n2
            IN  /\ Boundary(t, i)
                /\ n1 \in {1, 2}
                /\ At(t, i + n1) \in {".", "/"}
                /\ n2 \in {1, 2}
                /\ (Year(q) > 0 \/ NonWordAt(t, q))
        hits == {i \in 1..Len(t) : Hit(i)}
        i0 == Least(hits)
        n1 == DigitsAt(t, i0)
        n2 == DigitsAt(t, i0 + n1 + 1)
        q == i0 + n1 + 1 + n2
    IN  IF hits = {} THEN <<>>
        ELSE <<IntAt(t, i0, n1), IntAt(t, i0 + n1 + 1, n2),
               IF Year(q) > 0 THEN IntAt(t, q + 1, Year(q)) ELSE NoVal>>

\* re.search(rf"\b{re.escape(w[:-1])}\w*\b", t)
StemMatch(t, w) ==
    \E i \in 1..Len(t) :
        Boundary(t, i) /\ StartsAt(t, i, SubSeq(w, 1, Len(w) - 1))

\* the shift may be 0
WeekdayShift_SameDay(idx, wd) == (idx - wd) % 7

\* shift = (idx - today.weekday()) % 7 or 7
WeekdayShift(idx, wd) ==
    IF (idx - wd) % 7 = 0 THEN 7 ELSE (idx - wd) % 7

\* re.search(r"\b(\d{1,2})(?:\s*|-)?(?:go|ogo)\b", t)
\*   or re.search(r"\b(\d{1,2})\s*Cisla\b", t): <<day>> or <<>>
DayOfMonthMatch(t) ==
    LET Ord(i) ==
            LET n == DigitsAt(t, i)
                q == i + n
            IN  /\ Boundary(t, i)
                /\ n \in {1, 2}
                /\ \E p \in {q + SpacesAt(t, q), q,
                             IF At(t, q) = "-" THEN q + 1 ELSE q} :
                       \E e \in {"go", "ogo"} :
                           StartsAt(t, p, e) /\ NonWordAt(t, p + Len(e))
        Num(i) ==
            LET n == DigitsAt(t, i)
                p == i + n + SpacesAt(t, i + n)
            IN  /\ Boundary(t, i)
                /\ n \in {1, 2}
                /\ StartsAt(t, p, "Cisla")
                /\ NonWordAt(t, p + 5)
        ords == {i \in 1..Len(t) : Ord(i)}
        nums == {i \in 1..Len(t) : Num(i)}
    IN  IF ords # {} THEN <<IntAt(t, Least(ords), DigitsAt(t, Least(ords)))>>
        ELSE IF nums # {}
        THEN <<IntAt(t, Least(nums), DigitsAt(t, Least(nums)))>>
        ELSE <<>>

\* extract_date on the day `today`: NoVal stands for None
extract_date_on(text, today) ==
    LET \* the rules in their order: m is the match of the numeric rule, named
        \* the weekdays whose stem is found, dm the match of the day-of-month
        \* rule, ty and tm the year and month of today
        Rules(t, m, named, dm, ty, tm) ==
            LET y == IF m[3] # NoVal /\ m[3] < 100 THEN m[3] + 2000
                     ELSE IF m[3] # NoVal THEN m[3] ELSE ty
                ny == IF tm = 12 THEN ty + 1 ELSE ty
                nm == IF tm = 12 THEN 1 ELSE tm + 1
            IN  IF m # <<>> /\ ValidDate(y, m[2], m[1])
                THEN Ordinal(y, m[2], m[1])
                ELSE IF Contains(t, "segodnq") THEN today
                ELSE IF Contains(t, "zavtra") THEN today + 1
                ELSE IF Contains(t, "poslezavtra") \/ Contains(t, "posle zavtra")
                THEN today + 2
                ELSE IF named # {}
                THEN today + WeekdayShift(WEEKDAY_FULL[Least(named)][2],
                                          Weekday(today))
                ELSE IF dm # <<>>
                THEN IF ValidDate(ty, tm, dm[1]) /\ Ordinal(ty, tm, dm[1]) > today
                     THEN Ordinal(ty, tm, dm[1])
                     ELSE IF ValidDate(ny, nm, dm[1]) THEN Ordinal(ny, nm, dm[1])
                     ELSE NoVal
                ELSE NoVal
        On(t) ==
            Rules(t, DateNumMatch(t),
                  {k \in DOMAIN WEEKDAY_FULL : StemMatch(t, WEEKDAY_FULL[k][1])},
                  DayOfMonthMatch(t), YearOf(today), MonthOf(today))
    IN  On(normalize_text(text))

\* re.search(r"\b(\d{1,2})\s*(?:-|^|~|do)\s*(\d{1,2})\b", t): <<a, b>> or <<>>
NumRangeMatch(t) ==
    LET Second(i) ==
            \* where the second number starts, 0 when there is no match at i
            LET n1 == DigitsAt(t, i)
                r == i + n1 + SpacesAt(t, i + n1)
                len == IF At(t, r) \in {"-", "^", "~"} THEN 1
                       ELSE IF StartsAt(t, r, "do") THEN 2 ELSE 0
                p == r + len + SpacesAt(t, r + len)
                n2 == DigitsAt(t, p)
            IN  IF /\ Boundary(t, i)
                   /\ n1 \in {1, 2}
                   /\ len > 0
                   /\ n2 \in {1, 2}
                   /\ NonWordAt(t, p + n2)
                THEN p ELSE 0
        hits == {i \in 1..Len(t) : Second(i) > 0}
        i0 == Least(hits)
    IN  IF hits = {} THEN <<>>
        ELSE <<IntAt(t, i0, DigitsAt(t, i0)),
               IntAt(t, Second(i0), DigitsAt(t, Second(i0)))>>

\* re.search(pat_words, t): <<a, b>> or <<>>
WordRangeMatch(t) ==
    LET WordAt(i, rest(_)) ==
            \* the key of WORDS_TO_NUM that stands at position i, taking the
            \* first key of the alternation that lets `rest` match behind it
            LET ks == {k \in DOMAIN WORDS_TO_NUM :
                          StartsAt(t, i, WORDS_TO_NUM[k][1])
                          /\ rest(i + Len(WORDS_TO_NUM[k][1]))}
            IN  IF ks = {} THEN 0 ELSE Least(ks)
        Ends(q) == TRUE
        After(q) ==
            \* where the second word starts, 0 when nothing matches behind q
            LET r == q + SpacesAt(t, q)
                len == IF At(t, r) \in {"-", "^", "~"} THEN 1
                       ELSE IF StartsAt(t, r, "ili") THEN 3
                       ELSE IF StartsAt(t, r, "do") THEN 2 ELSE 0
                p == r + len + SpacesAt(t, r + len)
            IN  IF len > 0 /\ WordAt(p, Ends) > 0 THEN p ELSE 0
        Rest(q) == After(q) > 0
        hits == {i \in 1..Len(t) : WordAt(i, Rest) > 0}
        k1 == WordAt(Least(hits), Rest)
        k2 == WordAt(After(Least(hits) + Len(WORDS_TO_NUM[k1][1])), Ends)
    IN  IF hits = {} THEN <<>>
        ELSE <<WORDS_TO_NUM[k1][2], WORDS_TO_NUM[k2][2]>>

\* re.search(r"\bot\s+(\d{1,2})\s+do\s+(\d{1,2})\b", t): <<a, b>> or <<>>
FromToMatch(t) ==
    LET Parts(i) ==
            LET s1 == SpacesAt(t, i + 2)
                p1 == i + 2 + s1
                n1 == DigitsAt(t, p1)
                s2 == SpacesAt(t, p1 + n1)
                r == p1 + n1 + s2
                s3 == SpacesAt(t, r + 2)
                p2 == r + 2 + s3
                n2 == DigitsAt(t, p2)
            IN  IF /\ Boundary(t, i)
                   /\ StartsAt(t, i, "ot")
                   /\ s1 > 0 /\ n1 \in {1, 2}
                   /\ s2 > 0 /\ StartsAt(t, r, "do")
                   /\ s3 > 0 /\ n2 \in {1, 2}
                   /\ NonWordAt(t, p2 + n2)
                THEN <<IntAt(t, p1, n1), IntAt(t, p2, n2)>> ELSE <<>>
        hits == {i \in 1..Len(t) : Parts(i) # <<>>}
    IN  IF hits = {} THEN <<>> ELSE Parts(Least(hits))

\* the positions behind a match of \bdo\s+ : where the rest of the patterns
\* re.search(rf"\bdo\s+...", t) has to match
UpToHits(t) ==
    {i + 2 + SpacesAt(t, i + 2) : i \in
        {i \in 1..Len(t) :
            /\ Boundary(t, i)
            /\ StartsAt(t, i, "do")
            /\ SpacesAt(t, i + 2) > 0}}

\* re.search(r"\bdo\s+(\d{1,2})\b", t): <<n>> or <<>>
UpToNumMatch(t) ==
    LET Num(p) == DigitsAt(t, p) \in {1, 2} /\ NonWordAt(t, p + DigitsAt(t, p))
        hits == {p \in UpToHits(t) : Num(p)}
        p0 == Least(hits)
    IN  IF hits = {} THEN <<>> ELSE <<IntAt(t, p0, DigitsAt(t, p0))>>

\* re.search(rf"\bdo\s+{re.escape(w)}\b", t)
UpToWordMatch(t, w) ==
    \E p \in UpToHits(t) : StartsAt(t, p, w) /\ NonWordAt(t, p + Len(w))

\* re.search(rf"\b{re.escape(w)}\b", t)
WholeWordMatch(t, w) ==
    \E i \in 1..Len(t) :
        Boundary(t, i) /\ StartsAt(t, i, w) /\ NonWordAt(t, i + Len(w))

\* re.search(r"(?:\bna|\bdlq)?\s*(\d{1,2})\b", t): <<n>> or <<>>
BareNumMatch(t) ==
    LET Num(i) ==
            \* where the digits start for a match that starts at i, else 0
            LET pre == IF Boundary(t, i) /\ StartsAt(t, i, "na") THEN 2
                       ELSE IF Boundary(t, i) /\ StartsAt(t, i, "dlq") THEN 3
                       ELSE 0
                Digits(p) ==
                    DigitsAt(t, p) \in {1, 2} /\ NonWordAt(t, p + DigitsAt(t, p))
                withPre == i + pre + SpacesAt(t, i + pre)
                without == i + SpacesAt(t, i)
            IN  IF pre > 0 /\ Digits(withPre) THEN withPre
                ELSE IF Digits(without) THEN without
                ELSE 0
        hits == {i \in 1..Len(t) : Num(i) > 0}
        p0 == Num(Least(hits))
    IN  IF hits = {} THEN <<>> ELSE <<IntAt(t, p0, DigitsAt(t, p0))>>

\* extract_guests_range: the pair (lo, hi), NoVal standing for None
extract_guests_range(text) ==
    LET Min2(a, b) == IF a <= b THEN a ELSE b
        Max2(a, b) == IF a >= b THEN a ELSE b
        \* the rules in their order, m1 .. m7 being their matches
        Rules(t, m1, m2, m3, m4, upto, single, m7) ==
            IF t = "" THEN <<NoVal, NoVal>>
            ELSE IF m1 # <<>> THEN <<Min2(m1[1], m1[2]), Max2(m1[1], m1[2])>>
            ELSE IF m2 # <<>> THEN <<Min2(m2[1], m2[2]), Max2(m2[1], m2[2])>>
            ELSE IF m3 # <<>> THEN <<Min2(m3[1], m3[2]), Max2(m3[1], m3[2])>>
            ELSE IF m4 # <<>> THEN <<NoVal, m4[1]>>
            ELSE IF upto # {} THEN <<NoVal, WORDS_TO_NUM[Least(upto)][2]>>
            ELSE IF single # {}
            THEN <<WORDS_TO_NUM[Least(single)][2],
                   WORDS_TO_NUM[Least(single)][2]>>
            ELSE IF m7 # <<>> /\ m7[1] >= 1 /\ m7[1] <= 20
            THEN <<m7[1], m7[1]>>
            ELSE <<NoVal, NoVal>>
        On(t) ==
            Rules(t, NumRangeMatch(t), WordRangeMatch(t), FromToMatch(t),
                  UpToNumMatch(t),
                  {k \in DOMAIN WORDS_TO_NUM :
                      UpToWordMatch(t, WORDS_TO_NUM[k][1])},
                  {k \in DOMAIN WORDS_TO_NUM :
                      WholeWordMatch(t, WORDS_TO_NUM[k][1])},
                  BareNumMatch(t))
    IN  On(normalize_text(text))

\* INTENT_KEYWORDS, in the order of the dict
INTENT_KEYWORDS ==
    << <<"menu", {"menw", "posmotretx menw", "karta", "barnaq karta", "list"}>>,
       <<"venue", {"adres", "gde vy", "kak dobratxsq", "rabotaete", "Casy",
                   "do skolxki", "vo skolxko", "kontakty", "telefon"}>>,
       <<"quiz", {"viktorina", "kviz", "priz", "rozygryS"}>>,
       <<"book", {"bronx", "zabroni", "rezerv", "stolik", "stol", "posadka"}>> >>

\* no intent when no keyword is found, whether a draft is open or not
detect_intent_NoDefault(text, in_booking_flow) ==
    LET t == normalize_text(text)
        found == {k \in DOMAIN INTENT_KEYWORDS :
                     /\ ~(in_booking_flow /\ INTENT_KEYWORDS[k][1] = "book")
                     /\ \E key \in INTENT_KEYWORDS[k][2] : Contains(t, key)}
    IN  IF found # {} THEN INTENT_KEYWORDS[Least(found)][1] ELSE ""

\* detect_intent; "" stands for None
detect_intent(text, in_booking_flow) ==
    LET t == normalize_text(text)
        found == {k \in DOMAIN INTENT_KEYWORDS :
                     /\ ~(in_booking_flow /\ INTENT_KEYWORDS[k][1] = "book")
                     /\ \E key \in INTENT_KEYWORDS[k][2] : Contains(t, key)}
    IN  IF found # {} THEN INTENT_KEYWORDS[Least(found)][1]
        ELSE IF in_booking_flow THEN "book"
        ELSE ""

\* ------------------------------------------------------- the texts followed
\*   "zavtra"                 tomorrow
\*   "v 21:30"                at 21:30
\*   "nas troe"               three of us
\*   "do 2"                   up to 2
\*   "do 0"                   up to 0
\*   "+79991234567 Aleksej"   a phone number and a name
\*   OneShot                  tomorrow at 21:30 three of us +79991234567
\*   OneTurn                  tomorrow by 19, four of us, +79991234567 Aleksej
\*   "menw"                   menu
\*   "bronx"                  reservation
\*   "privet"                 hello
OneShot == "zavtra v 21:30 nas troe +79991234567"

OneTurn == "zavtra k 19, nas 4, +79991234567 Aleksej"

Texts ==
    {"zavtra", "v 21:30", "nas troe", "do 2", "do 0",
     "+79991234567 Aleksej", OneShot, "menw", "bronx", "privet"}

\* the texts followed for each user
TextsOf(u) == IF u = 1 THEN Texts ELSE {OneTurn}

\* datetime.now().date(): the bot is started on Wednesday 4 November 2026
StartDay == Ordinal(2026, 11, 4)
Today(t) == StartDay + t \div (86400 * TicksPerSecond)

\* extract_date at time t
extract_date(text, t) == extract_date_on(text, Today(t))

\* What the extractors return for the texts followed: `date` by the day of
\* the call, `intent` by in_booking_flow.  The handlers read it from nlu,
\* which holds this table from the start on.
Extracted ==
    [text \in Texts \cup {OneTurn} |->
        [date |-> [day \in StartDay..(StartDay + MaxJumps) |->
                      extract_date_on(text, day)],
         time |-> extract_time(text),
         guests |-> extract_guests_range(text),
         phone |-> extract_phone(text),
         name |-> extract_name_from_contact_text(text, extract_phone(text)),
         intent |-> [in_booking_flow \in BOOLEAN |->
                        detect_intent(text, in_booking_flow)]]]

\* message.from_user.full_name
FullName(u) == IF u = 1 THEN "Ivan" ELSE ""

\* (message.from_user.full_name or "Gost")
DisplayName(u) == IF FullName(u) # "" THEN FullName(u) ELSE "Gost"

\* a draft: the dict kept in BOOK_STATE.  A key that is absent holds NoVal
\* (date, guests) or "" (time, phone, name); NoDraft is the empty dict.
NoDraft ==
    [date |-> NoVal, time |-> "", guests_min |-> NoVal, guests_max |-> NoVal,
     phone |-> "", name |-> ""]

\* 0 counts as true
Truthy_NotNone(n) == n # NoVal

\* truth value of an optional number: None and 0 are false
Truthy(n) == n # NoVal /\ n # 0

\* the fields of the text replace the whole dict
Merge_Replace(st, text, uid, t) ==
    LET phone == nlu[text].phone
        name == IF phone # "" THEN nlu[text].name ELSE ""
    IN  [date |-> nlu[text].date[Today(t)], time |-> nlu[text].time,
         guests_min |-> nlu[text].guests[1], guests_max |-> nlu[text].guests[2],
         phone |-> phone,
         name |-> IF name # "" THEN name ELSE DisplayName(uid)]

\* lines 821-832 of universal_router: the fields of the text merged into st
Merge(st, text, uid, t) ==
    LET d == nlu[text].date[Today(t)]
        tm == nlu[text].time
        g == nlu[text].guests
        phone == nlu[text].phone
        name == IF phone # "" THEN nlu[text].name ELSE ""
        st1 == [st EXCEPT !.date = IF d # NoVal THEN d ELSE @,
                          !.time = IF tm # "" THEN tm ELSE @,
                          !.guests_min = IF g[1] # NoVal THEN g[1] ELSE @,
                          !.guests_max = IF g[2] # NoVal THEN g[2] ELSE @,
                          !.phone = IF phone # "" THEN phone ELSE @,
                          !.name = IF name # "" THEN name ELSE @]
    IN  [st1 EXCEPT !.name = IF @ = "" THEN DisplayName(uid) ELSE @]

\* the guest item is listed unless both bounds are present
Missing_GuestsBoth(st) ==
    (IF st.date = NoVal THEN <<"date">> ELSE <<>>)
    \o (IF st.time = "" THEN <<"time">> ELSE <<>>)
    \o (IF st.guests_max = NoVal \/ st.guests_min = NoVal
        THEN <<"guests">> ELSE <<>>)
    \o (IF st.phone = "" THEN <<"phone">> ELSE <<>>)

\* the phone item is left out of the list
Missing_PhoneOptional(st) ==
    (IF st.date = NoVal THEN <<"date">> ELSE <<>>)
    \o (IF st.time = "" THEN <<"time">> ELSE <<>>)
    \o (IF st.guests_max = NoVal /\ st.guests_min = NoVal
        THEN <<"guests">> ELSE <<>>)

\* the list `missing` of universal_router
Missing(st) ==
    (IF st.date = NoVal THEN <<"date">> ELSE <<>>)
    \o (IF st.time = "" THEN <<"time">> ELSE <<>>)
    \o (IF st.guests_max = NoVal /\ st.guests_min = NoVal
        THEN <<"guests">> ELSE <<>>)
    \o (IF st.phone = "" THEN <<"phone">> ELSE <<>>)

\* str(n), as the sequence of its characters

StrOf(n) == [i \in DOMAIN IntToStr(n) |-> Digit[IntToStr(n)[i] + 1]]

\* guests_range_str of finalize_booking (gmax is truthy where it is built)
guests_range_str(gmin, gmax) ==
    IF Truthy(gmin) /\ Truthy(gmax) /\ gmin # gmax
    THEN StrOf(gmin) \o <<"-">> \o StrOf(gmax)
    ELSE StrOf(gmax)

\* read_csv types the phone column, whose cells are digits behind an optional
\* "+", as integers, and to_csv writes the integers back: a cell comes back
\* without its "+" and without leading zeros
ReadPhone(cell) ==
    LET body == IF At(cell, 1) = "+" THEN SubSeq(cell, 2, Len(cell)) ELSE cell
        nonzero == {i \in 1..Len(body) : At(body, i) # "0"}
    IN  IF nonzero = {} THEN "0"
        ELSE SubSeq(body, Least(nonzero), Len(body))

\* load_bookings: the rows as read_csv types them
load_bookings(file) ==
    [i \in DOMAIN file |-> [file[i] EXCEPT !.phone = ReadPhone(@)]]

RECURSIVE MaxId(_)
\* df["id"].max()
MaxId(df) ==
    IF df = <<>> THEN 0
    ELSE LET m == MaxId(Tail(df))
         IN  IF Head(df).id > m THEN Head(df).id ELSE m

\* the first id is 0
next_booking_id_FromZero(df) == IF df = <<>> THEN 0 ELSE MaxId(df) + 1

\* next_booking_id
next_booking_id(df) == IF df = <<>> THEN 1 ELSE MaxId(df) + 1

\* ------------------------------------------------- universal_router (drafts)
RIdle ==
    [pc |-> "idle", user |-> 0, text |-> "", intent |-> "", st |-> 0,
     out |-> <<>>, bid |-> 0]

FreeRouters == {h \in Routers : routers[h].pc = "idle"}
FirstFreeRouter == CHOOSE h \in FreeRouters : \A g \in FreeRouters : h <= g

\* the dicts that BOOK_STATE or a handler's local `st` refers to
InUse(bs, rt) ==
    ({bs[u] : u \in Users} \cup {rt[h].st : h \in Routers}) \ {0}

\* `{}`: a dict no one refers to yet
NewRef ==
    CHOOSE r \in Refs \ InUse(BOOK_STATE, routers) :
        \A q \in Refs \ InUse(BOOK_STATE, routers) : r <= q

\* the dicts no one refers to any more are dropped
Collect(hp, bs, rt) ==
    [r \in Refs |-> IF r \in InUse(bs, rt) THEN hp[r] ELSE NoDraft]

\* finalize_booking up to its first send, run by handler h for the dict st
\* at ref; bs and hp are BOOK_STATE and the dicts as the caller left them
finalize_booking(h, rec, st, bs, hp) ==
    LET uid == rec.user
        name == IF st.name # "" THEN st.name ELSE DisplayName(uid)
        phone == st.phone
        date_o == st.date
        time_s == IF st.time # "" THEN st.time ELSE "20:00"
        gmin == st.guests_min
        gmax == IF st.guests_max # NoVal THEN st.guests_max ELSE gmin
        df == load_bookings(bookings)
        bid == next_booking_id(df)
        row == [id |-> bid, tg_user_id |-> uid, name |-> name,
                phone |-> phone, guests |-> gmax,
                guests_range |-> guests_range_str(gmin, gmax),
                date |-> date_o, time |-> time_s, status |-> "new"]
        done == [RIdle EXCEPT !.user = uid]
    IN  IF ~(date_o # NoVal /\ time_s # "" /\ Truthy(gmax) /\ phone # "")
        THEN /\ routers' = [routers EXCEPT ![h] = [done EXCEPT !.pc = "abort_send"]]
             /\ drafts' = Collect(hp, bs, routers')
             /\ BOOK_STATE' = bs
             /\ UNCHANGED bookings
        ELSE /\ bookings' = df \o <<row>>
             /\ routers' = [routers EXCEPT ![h] =
                    [done EXCEPT !.pc = "confirm_send", !.bid = bid]]
             /\ drafts' = Collect(hp, bs, routers')
             /\ BOOK_STATE' = bs

\* universal_router from parse_booking_phrase on (lines 816-860), run by
\* handler h; rec.st is the dict the handler read from BOOK_STATE on entry
router_merge(h, rec) ==
    LET uid == rec.user
        d == nlu[rec.text].date[Today(now)]
        tm == nlu[rec.text].time
        g == nlu[rec.text].guests
        has_clues == d # NoVal \/ tm # "" \/ Truthy(g[1]) \/ Truthy(g[2])
        has_st == rec.st # 0
        ref == IF has_st THEN rec.st ELSE NewRef
        st == Merge(IF has_st THEN drafts[rec.st] ELSE NoDraft, rec.text, uid, now)
        hp == [drafts EXCEPT ![ref] = st]
        bs == [BOOK_STATE EXCEPT ![uid] = ref]
        missing == Missing(st)
    IN  IF rec.intent = "book" \/ has_st \/ has_clues
        THEN IF missing # <<>>
             THEN /\ routers' = [routers EXCEPT ![h] =
                         [RIdle EXCEPT !.pc = "missing_send", !.user = uid,
                                       !.out = missing]]
                  /\ BOOK_STATE' = bs
                  /\ drafts' = Collect(hp, bs, routers')
                  /\ UNCHANGED bookings
             ELSE finalize_booking(h, rec, st, bs, hp)
        ELSE /\ routers' = [routers EXCEPT ![h] =
                    IF rec.intent = ""
                    THEN [RIdle EXCEPT !.pc = "unknown_send", !.user = uid]
                    ELSE RIdle]
             /\ UNCHANGED <<BOOK_STATE, drafts, bookings>>

\* universal_router up to its first send: user u sends `text`
universal_router(u, text) ==
    /\ FreeRouters # {}
    /\ Len(bookings) < MaxBookings
    /\ LET h == FirstFreeRouter
           st == BOOK_STATE[u]
           intent == nlu[text].intent[st # 0]
           rec == [RIdle EXCEPT !.user = u, !.text = text, !.intent = intent,
                                !.st = st]
       IN  IF intent \in {"menu", "venue"}
           THEN /\ routers' = [routers EXCEPT ![h] = [rec EXCEPT !.pc = "picker_send"]]
                /\ UNCHANGED <<BOOK_STATE, drafts, bookings>>
           ELSE router_merge(h, rec)
    /\ hist' = [hist EXCEPT !.saved =
           (IF Len(bookings') > Len(bookings) THEN @ \cup {BOOK_STATE'[u]} ELSE @)
               \cap InUse(BOOK_STATE', routers')]
    /\ UNCHANGED <<now, quizUsers, coupons, QUIZ_STATE, handlers, shown, lastMiss, probe, nlu>>

\* the exception of a failed send reaches AdminErrorMiddleware
RouterRaised(rec) == [RIdle EXCEPT !.pc = "report", !.user = rec.user, !.st = 0]

\* show_menu_branch_picker / show_venue_branch_picker returned
picker_send(h, ok) ==
    LET rec == routers[h]
    IN  /\ rec.pc = "picker_send"
        /\ Len(bookings) < MaxBookings
        /\ IF ok
           THEN router_merge(h, rec)
           ELSE /\ routers' = [routers EXCEPT ![h] = RouterRaised(rec)]
                /\ drafts' = Collect(drafts, BOOK_STATE, routers')
                /\ UNCHANGED <<BOOK_STATE, bookings>>
        /\ hist' = [hist EXCEPT !.saved =
               (IF Len(bookings') > Len(bookings)
                THEN @ \cup {BOOK_STATE'[rec.user]} ELSE @)
                   \cap InUse(BOOK_STATE', routers')]
        /\ UNCHANGED <<now, quizUsers, coupons, QUIZ_STATE, handlers, shown, lastMiss, probe, nlu>>

\* the prompt naming the missing fields was sent
missing_send(h, ok) ==
    LET rec == routers[h]
    IN  /\ rec.pc = "missing_send"
        /\ routers' = [routers EXCEPT ![h] = IF ok THEN RIdle ELSE RouterRaised(rec)]
        /\ UNCHANGED <<BOOK_STATE, drafts, bookings>>
        /\ UNCHANGED <<quizVars, probe, nlu>>

\* the "once again" prompt of finalize_booking was sent
abort_send(h, ok) ==
    LET rec == routers[h]
    IN  /\ rec.pc = "abort_send"
        /\ routers' = [routers EXCEPT ![h] = IF ok THEN RIdle ELSE RouterRaised(rec)]
        /\ UNCHANGED <<BOOK_STATE, drafts, bookings>>
        /\ UNCHANGED <<quizVars, probe, nlu>>

\* the reply to a text that says nothing was sent
unknown_send(h, ok) ==
    LET rec == routers[h]
    IN  /\ rec.pc = "unknown_send"
        /\ routers' = [routers EXCEPT ![h] = IF ok THEN RIdle ELSE RouterRaised(rec)]
        /\ UNCHANGED <<BOOK_STATE, drafts, bookings>>
        /\ UNCHANGED <<quizVars, probe, nlu>>

\* the confirmation to the requester was sent, or raised
confirm_send(h, ok) ==
    LET rec == routers[h]
    IN  /\ rec.pc = "confirm_send"
        /\ routers' = [routers EXCEPT ![h] =
               IF ok THEN [rec EXCEPT !.pc = "admin_send"] ELSE RouterRaised(rec)]
        /\ UNCHANGED <<BOOK_STATE, drafts, bookings>>
        /\ UNCHANGED <<quizVars, probe, nlu>>

\* the notification to the operator was sent or its failure logged:
\* BOOK_STATE.pop(uid, None)
admin_send(h, ok) ==
    LET rec == routers[h]
        bs == [BOOK_STATE EXCEPT ![rec.user] = 0]
    IN  /\ rec.pc = "admin_send"
        /\ routers' = [routers EXCEPT ![h] = RIdle]
        /\ BOOK_STATE' = bs
        /\ drafts' = Collect(drafts, bs, routers')
        /\ UNCHANGED bookings
        /\ hist' = [hist EXCEPT !.saved = @ \cap InUse(bs, routers')]
        /\ UNCHANGED <<now, quizUsers, coupons, QUIZ_STATE, handlers, shown, lastMiss, probe, nlu>>

\* report_error_to_admin: sent or not, the middleware returns
router_report_send(h) ==
    /\ routers[h].pc = "report"
    /\ routers' = [routers EXCEPT ![h] = RIdle]
    /\ UNCHANGED <<BOOK_STATE, drafts, bookings>>
    /\ UNCHANGED <<quizVars, probe, nlu>>

\* ------------------------------------------------- the operator's buttons
\* the chats a callback can come from: the private chat of a user has the
\* user's id
Chats == Users \cup {ADMIN_CHAT_ID}

\* the ids a callback can carry
BookingIds == 1..MaxBookings

\* admin_update_status up to its send, run by handler h
admin_update_status(h, booking_id, new_status, chat) ==
    LET df == load_bookings(bookings)
        found == {i \in DOMAIN df : df[i].id = booking_id}
        rec == [RIdle EXCEPT !.pc = "status_send", !.user = chat]
    IN  IF found = {}
        THEN /\ routers' = [routers EXCEPT ![h] =
                    [rec EXCEPT !.out = <<"not_found">>]]
             /\ UNCHANGED bookings
        ELSE /\ bookings' = [i \in DOMAIN df |->
                    IF i \in found THEN [df[i] EXCEPT !.status = new_status]
                    ELSE df[i]]
             /\ routers' = [routers EXCEPT ![h] =
                    [rec EXCEPT !.out = <<new_status>>]]

\* cb_admin_confirm and cb_admin_cancel up to their first send: a press of
\* the button that carries booking_id, in `chat`
cb_admin(chat, booking_id, new_status) ==
    /\ FreeRouters # {}
    /\ LET h == FirstFreeRouter
       IN  IF chat # ADMIN_CHAT_ID
           THEN /\ routers' = [routers EXCEPT ![h] =
                       [RIdle EXCEPT !.pc = "denied_send", !.user = chat]]
                /\ UNCHANGED bookings
           ELSE admin_update_status(h, booking_id, new_status, chat)
    /\ UNCHANGED <<BOOK_STATE, drafts>>
    /\ UNCHANGED <<quizVars, probe, nlu>>

cb_admin_confirm(chat, booking_id) == cb_admin(chat, booking_id, "confirmed")

cb_admin_cancel(chat, booking_id) == cb_admin(chat, booking_id, "canceled")

\* the alert "not enough rights" was sent
denied_send(h, ok) ==
    LET rec == routers[h]
    IN  /\ rec.pc = "denied_send"
        /\ routers' = [routers EXCEPT ![h] = IF ok THEN RIdle ELSE RouterRaised(rec)]
        /\ UNCHANGED <<BOOK_STATE, drafts, bookings>>
        /\ UNCHANGED <<quizVars, probe, nlu>>

\* the reply of admin_update_status was sent; call.answer() is next
status_send(h, ok) ==
    LET rec == routers[h]
    IN  /\ rec.pc = "status_send"
        /\ routers' = [routers EXCEPT ![h] =
               IF ok THEN [RIdle EXCEPT !.pc = "answer_send", !.user = rec.user]
               ELSE RouterRaised(rec)]
        /\ UNCHANGED <<BOOK_STATE, drafts, bookings>>
        /\ UNCHANGED <<quizVars, probe, nlu>>

\* call.answer() returned
answer_send(h, ok) ==
    LET rec == routers[h]
    IN  /\ rec.pc = "answer_send"
        /\ routers' = [routers EXCEPT ![h] = IF ok THEN RIdle ELSE RouterRaised(rec)]
        /\ UNCHANGED <<BOOK_STATE, drafts, bookings>>
        /\ UNCHANGED <<quizVars, probe, nlu>>

\* -------------------------------------------------- parse_booking_phrase
\* parse_booking_phrase(text): d, t, gmin, gmax
parse_booking_phrase ==
    /\ probe.out = <<>>
    /\ probe' = [probe EXCEPT !.out =
           <<extract_date(probe.text, now), extract_time(probe.text)>>
           \o extract_guests_range(probe.text)]
    /\ UNCHANGED <<quizVars, bookVars, nlu>>

\* the weekdays as they are named in a message: "v sredu" is "on Wednesday"
WeekdayTexts ==
    << {"ponedelxnik", "v ponedelxnik"}, {"vtornik", "vo vtornik"},
       {"sreda", "v sredu"}, {"Cetverg", "v Cetverg"},
       {"pqtnica", "v pqtnicu"}, {"subbota", "k subbote"},
       {"voskresenxe", "v voskresenxe"} >>

\* the numeric dates D.M, D.M.YY and D.M.YYYY, with either separator
DayTexts == {"1", "09", "28", "29", "30", "31", "0", "32"}
MonthTexts == {"1", "02", "4", "12", "0", "13"}
YearTexts == {"", "00", "23", "24", "2023", "2024", "2100"}
NumDateText(d, m, y, sep) ==
    d \o sep \o m \o (IF y = "" THEN "" ELSE sep \o y)

\* a guest range a-b next to a single number n, in several wordings; "Cel"
\* is the abbreviation of "Celovek" (persons), written with or without a
\* space behind the range
RangeForms == 1..7
RangeText(form, a, b, n) ==
    CASE form = 1 -> a \o "-" \o b \o " Celovek, na " \o n
      [] form = 2 -> "na " \o n \o ", " \o a \o "-" \o b
      [] form = 3 -> a \o " - " \o b \o " i " \o n
      [] form = 4 -> n \o " ili " \o a \o "~" \o b
      [] form = 5 -> a \o " do " \o b \o ", " \o n
      [] form = 6 -> "stol na " \o n \o ", ot " \o a \o " do " \o b
      [] form = 7 -> a \o "-" \o b \o "Cel, na " \o n
RangeEnds == {"2", "3", "5", "12"}
BareNumbers == {"4", "1"}

\* a numeric range next to a range in words, and a range in words next to
\* single values
MixedRangeTexts == {"3-5, dvoe-troe", "dvoe ili troe, 5-3", "dvoe do troih 4 ~ 6"}
WordRangeTexts ==
    {"troe ili Cetvero, na 6", "na 6, Cetvero-troe", "semero, dvoe do pqti",
     "dvoe^troe 9", "nas 2, troe - pqtero, desqtero"}

\* the day a text is parsed on, counted from StartDay: the seven days of a
\* week for the weekday names, a day of this year and a day of the leap year
\* 2028 for the numeric dates
ProbeInputs ==
    LET LeapYearDay == Ordinal(2028, 3, 18) - StartDay
        NumDateTexts ==
            {NumDateText(d, m, y, sep) :
                d \in DayTexts, m \in MonthTexts, y \in YearTexts,
                sep \in {".", "/"}}
        RangeTexts ==
            {RangeText(form, a, b, n) :
                form \in RangeForms, a \in RangeEnds, b \in RangeEnds,
                n \in BareNumbers}
    IN  ((UNION {WeekdayTexts[k] : k \in DOMAIN WeekdayTexts}) \X (0..6))
        \cup (NumDateTexts \X {0, LeapYearDay})
        \cup ((RangeTexts \cup MixedRangeTexts \cup WordRangeTexts) \X {0})

\* a text is handed to parse_booking_phrase at noon of a day
InitParse ==
    /\ nlu = Extracted
    /\ \E inp \in ProbeInputs :
          /\ now = (2 * inp[2] + 1) * 43200 * TicksPerSecond
          /\ probe = [text |-> inp[1], out |-> <<>>]
    /\ quizUsers = << >>
    /\ coupons = << >>
    /\ QUIZ_STATE = [q \in QIds |-> ""]
    /\ handlers = [h \in Handlers |-> Idle]
    /\ shown = {}
    /\ lastMiss = [u \in Users |-> NoVal]
    /\ hist = [players |-> {}, answered |-> {}, last |-> 0, saved |-> {}]
    /\ BOOK_STATE = [u \in Users |-> 0]
    /\ drafts = [r \in Refs |-> NoDraft]
    /\ bookings = << >>
    /\ routers = [h \in Routers |-> RIdle]

NextParse == parse_booking_phrase

SpecParse == InitParse /\ [][NextParse]_vars

\* ------------------------------------------------------------ detect_intent
\* lines 809-811 of universal_router for a message of user 1:
\* detect_intent(text, in_booking_flow=bool(st))
router_intent ==
    /\ probe.out = <<>>
    /\ probe' = [probe EXCEPT !.out =
           <<detect_intent(probe.text, BOOK_STATE[1] # 0)>>]
    /\ UNCHANGED <<quizVars, bookVars, nlu>>

\* per intent, in the order of INTENT_KEYWORDS: no keyword, or one of two
\* keywords of the intent ("telefon" is a keyword of venue, "stol" is part
\* of the keyword "stolik"; "Adres" is written with a capital)
IntentWords ==
    << {"", "menw", "barnaq karta"}, {"", "Adres", "telefon"},
       {"", "kviz", "priz"}, {"", "bronx", "stolik"} >>

\* the texts made of one choice per intent, the words in the order of the
\* dict or in the opposite one; "privet" when no word is chosen
IntentTexts ==
    LET Words(m, v, q, b, back) ==
            SelectSeq(IF back THEN <<b, q, v, m>> ELSE <<m, v, q, b>>,
                      LAMBDA w : w # "")
        Text(ws) == IF ws = <<>> THEN "privet" ELSE " " \o Join(ws)
    IN  {Text(Words(m, v, q, b, back)) :
            m \in IntentWords[1], v \in IntentWords[2], q \in IntentWords[3],
            b \in IntentWords[4], back \in BOOLEAN}

\* a text arrives from user 1, who has a draft open or not
InitIntent ==
    /\ nlu = Extracted
    /\ now = 1
    /\ \E text \in IntentTexts : probe = [text |-> text, out |-> <<>>]
    /\ \E open \in BOOLEAN :
          /\ BOOK_STATE = [u \in Users |-> IF open /\ u = 1 THEN 1 ELSE 0]
          /\ drafts = [r \in Refs |->
                 IF open /\ r = 1 THEN [NoDraft EXCEPT !.name = DisplayName(1)]
                 ELSE NoDraft]
    /\ quizUsers = << >>
    /\ coupons = << >>
    /\ QUIZ_STATE = [q \in QIds |-> ""]
    /\ handlers = [h \in Handlers |-> Idle]
    /\ shown = {}
    /\ lastMiss = [u \in Users |-> NoVal]
    /\ hist = [players |-> {}, answered |-> {}, last |-> 0, saved |-> {}]
    /\ bookings = << >>
    /\ routers = [h \in Routers |-> RIdle]

NextIntent == router_intent

SpecIntent == InitIntent /\ [][NextIntent]_vars

\* -------------------------------------------------- the catalog's rows
\* the rows quiz_template.csv can hold for one question: each option cell
\* empty or filled, `correct` a letter in either case, the text of an option
\* in either case, or a text that is no option
CatalogRows ==
    [id : {1}, a : {"", "Rome"}, b : {"", "Bern"}, c : {"", "Lima"},
     d : {"", "Kyiv"}, option1 : {"", "Oslo"}, option2 : {"", "Riga"},
     option3 : {""}, option4 : {""},
     correct : {"a", "B", "c", "D", "OSLO", "riga", "Pisa"}, active : {1}]

\* start_quiz_for_user from the option list to the send, on the row drawn:
\* the letter registered in QUIZ_STATE and the letters of the buttons sent,
\* or the "no options" message
start_quiz_row ==
    /\ probe.out = <<>>
    /\ probe' = [probe EXCEPT !.out =
           IF OptionsList(probe.text) = <<>> THEN <<"no_options">>
           ELSE <<CorrectLetter(probe.text),
                  {Lower(OptionsList(probe.text)[k][1]) :
                      k \in DOMAIN OptionsList(probe.text)}>>]
    /\ UNCHANGED <<quizVars, bookVars, nlu>>

InitCatalog ==
    /\ nlu = Extracted
    /\ now = 1
    /\ \E row \in CatalogRows : probe = [text |-> row, out |-> <<>>]
    /\ quizUsers = << >>
    /\ coupons = << >>
    /\ QUIZ_STATE = [q \in QIds |-> ""]
    /\ handlers = [h \in Handlers |-> Idle]
    /\ shown = {}
    /\ lastMiss = [u \in Users |-> NoVal]
    /\ hist = [players |-> {}, answered |-> {}, last |-> 0, saved |-> {}]
    /\ BOOK_STATE = [u \in Users |-> 0]
    /\ drafts = [r \in Refs |-> NoDraft]
    /\ bookings = << >>
    /\ routers = [h \in Routers |-> RIdle]

SpecCatalog == InitCatalog /\ [][start_quiz_row]_vars

\* time passes: the clock is followed from one tick past a whole second, in
\* steps of one tick less than the lock's length
Jump ==
    /\ now \div JumpTicks < MaxJumps
    /\ now' = now + JumpTicks
    /\ UNCHANGED <<bookVars, probe, nlu, quizUsers, coupons, QUIZ_STATE, handlers, shown, lastMiss, hist>>

Init ==
    /\ now = 1
    /\ quizUsers = << >>
    /\ coupons = << >>
    /\ QUIZ_STATE = [q \in QIds |-> ""]
    /\ handlers = [h \in Handlers |-> Idle]
    /\ shown = {}
    /\ lastMiss = [u \in Users |-> NoVal]
    /\ hist = [players |-> {}, answered |-> {}, last |-> 0, saved |-> {}]
    /\ BOOK_STATE = [u \in Users |-> 0]
    /\ drafts = [r \in Refs |-> NoDraft]
    /\ bookings = << >>
    /\ routers = [h \in Routers |-> RIdle]
    /\ probe = [text |-> "", out |-> <<>>]
    /\ nlu = Extracted

Next ==
    \/ Jump
    \/ \E u \in Users : universal_router_quiz(u)
    \/ \E u \in Users : cb_quiz(u)
    \/ \E u \in Users, q \in QIds, opt \in {"a", "b", "c", "d"} : cb_quiz_answer(u, q, opt)
    \/ \E h \in Handlers : start_send(h, TRUE)
    \/ \E h \in Handlers : closed_send(h, TRUE)
    \/ \E h \in Handlers : right_send(h, TRUE)
    \/ \E h \in Handlers : prize_send(h, TRUE)
    \/ \E h \in Handlers : notify_send(h, TRUE)
    \/ \E h \in Handlers : wrong_send(h, TRUE)
    \/ \E h \in Handlers : tail_send(h, TRUE)

\* Every send is delivered.
Spec == Init /\ [][Next]_vars

\* Sends may raise; one user is followed.
NextFail ==
    \/ Jump
    \/ universal_router_quiz(1)
    \/ cb_quiz(1)
    \/ \E q \in QIds, opt \in {"a", "b", "c", "d"} : cb_quiz_answer(1, q, opt)
    \/ \E h \in Handlers, ok \in BOOLEAN : start_send(h, ok)
    \/ \E h \in Handlers, ok \in BOOLEAN : closed_send(h, ok)
    \/ \E h \in Handlers, ok \in BOOLEAN : right_send(h, ok)
    \/ \E h \in Handlers, ok \in BOOLEAN : prize_send(h, ok)
    \/ \E h \in Handlers, ok \in BOOLEAN : notify_send(h, ok)
    \/ \E h \in Handlers, ok \in BOOLEAN : wrong_send(h, ok)
    \/ \E h \in Handlers, ok \in BOOLEAN : tail_send(h, ok)
    \/ \E h \in Handlers : report_send(h)

SpecFail == Init /\ [][NextFail]_vars

\* The reservation dialogue: texts that carry no quiz keyword; sends may
\* raise.
NextBook ==
    \/ \E u \in Users : \E text \in TextsOf(u) : universal_router(u, text)
    \/ \E h \in Routers, ok \in BOOLEAN : picker_send(h, ok)
    \/ \E h \in Routers, ok \in BOOLEAN : missing_send(h, ok)
    \/ \E h \in Routers, ok \in BOOLEAN : abort_send(h, ok)
    \/ \E h \in Routers, ok \in BOOLEAN : unknown_send(h, ok)
    \/ \E h \in Routers, ok \in BOOLEAN : confirm_send(h, ok)
    \/ \E h \in Routers, ok \in BOOLEAN : admin_send(h, ok)
    \/ \E h \in Routers : router_report_send(h)

SpecBook == Init /\ [][NextBook]_vars

\* Reservations completed in one message, and the operator's buttons.
NextAdmin ==
    \/ \E u \in Users : universal_router(u, OneTurn)
    \/ \E h \in Routers, ok \in BOOLEAN : confirm_send(h, ok)
    \/ \E h \in Routers, ok \in BOOLEAN : admin_send(h, ok)
    \/ \E h \in Routers : router_report_send(h)
    \/ \E chat \in Chats, id \in BookingIds : cb_admin_confirm(chat, id)
    \/ \E chat \in Chats, id \in BookingIds : cb_admin_cancel(chat, id)
    \/ \E h \in Routers, ok \in BOOLEAN : denied_send(h, ok)
    \/ \E h \in Routers, ok \in BOOLEAN : status_send(h, ok)
    \/ \E h \in Routers, ok \in BOOLEAN : answer_send(h, ok)

SpecAdmin == Init /\ [][NextAdmin]_vars


\* ------------------------------------------------------------- properties
\* the ledger rows issued to user u
RowsOf(ledger, u) == {i \in DOMAIN ledger : ledger[i].user = u}

Awarded(u) == u \in DOMAIN quizUsers /\ quizUsers[u].awarded = 1

\* the lock of u's persisted row is in the future
LockedNow(u) ==
    /\ u \in DOMAIN quizUsers
    /\ quizUsers[u].locked # NoVal
    /\ now < quizUsers[u].locked

\* in this step handler h took up a new event
Began(h) == handlers[h].pc = "idle" /\ handlers'[h].pc # "idle"

\* in this step handler h ran start_quiz_for_user
Started(h) == handlers'[h].pc = "start_send" /\ handlers'[h] # handlers[h]

\* in this step handler h evaluated an answer as correct
EvaluatedCorrect(h) ==
    Began(h) /\ handlers'[h].pc \in {"right_send", "prize_send", "notify_send"}

\* C1: for a user who is not awarded and not locked, the third consecutive
\* correct answer adds exactly one ledger row for the user and sets awarded;
\* when its handler has finished the persisted state is awarded with streak
\* 0; and no question is sent for that user's answers once the third correct
\* answer has been evaluated.
C1_ThirdCorrectAwardsOnce ==
    [][\A h \in Handlers :
         LET u == handlers'[h].user
             v == handlers[h].user
         IN  /\ ( /\ EvaluatedCorrect(h)
                  /\ ~LockedNow(u)
                  /\ u \in DOMAIN quizUsers
                  /\ quizUsers[u].streak = StreakGoal - 1 )
                => /\ Cardinality(RowsOf(coupons', u)) = 1
                   /\ RowsOf(coupons, u) = {}
                   /\ quizUsers'[u].awarded = 1
             /\ (handlers[h].pc = "notify_send" /\ handlers'[h].pc = "idle")
                => /\ quizUsers'[v].awarded = 1
                   /\ quizUsers'[v].streak = 0
             /\ ( /\ handlers[h].kind = "answer"
                  /\ Started(h)
                  /\ handlers'[h].out = "question" )
                => ~Awarded(v)
      ]_vars

\* C2: once a user's persisted awarded flag is 1 it is 1 in every later
\* persisted state.
C2_AwardedIrreversible ==
    [][\A u \in Ids :
         Awarded(u) => (u \in DOMAIN quizUsers' /\ quizUsers'[u].awarded = 1)
      ]_vars

\* C3: once a user is awarded, every start attempt and every answer callback
\* by that user is answered with the terminal message and leaves the user's
\* row, the ledger and the active-question table unchanged.
C3_AwardedRejected ==
    [][\A h \in Handlers :
         LET u == handlers'[h].user
         IN  (Began(h) /\ Awarded(u))
             => /\ handlers'[h].out = "awarded"
                /\ quizUsers' = quizUsers
                /\ coupons' = coupons
                /\ QUIZ_STATE' = QUIZ_STATE
      ]_vars

\* C4: the ledger holds at most one row per user.
C4_AtMostOneCoupon ==
    \A u \in Users : Cardinality(RowsOf(coupons, u)) <= 1

\* C5: the codes of the ledger, as read back from it, are pairwise distinct.
C5_CodesUnique ==
    LET df == load_coupons_gen(coupons)
    IN  \A i, j \in DOMAIN df : i # j => df[i].code # df[j].code

\* C6 as stated: an incorrect answer at time T persists streak 0, question
\* id 0 and a lock of exactly T + 24 hours, before the user is told.
C6_LockExactly24h ==
    [][\A h \in Handlers :
         LET u == handlers'[h].user
         IN  (Began(h) /\ handlers'[h].pc = "wrong_send")
             => /\ quizUsers'[u].streak = 0
                /\ quizUsers'[u].qid = 0
                /\ quizUsers'[u].locked = now + LockTicks
                /\ handlers'[h].out = "wrong"
      ]_vars

\* C6 amended: the lock persisted is T + 24 hours cut to whole seconds; the
\* unlock time of the message still pending is T + 24 hours.
C6_LockTruncated24h ==
    [][\A h \in Handlers :
         LET u == handlers'[h].user
             until == now + LockHours * 3600 * TicksPerSecond
         IN  (Began(h) /\ handlers'[h].pc = "wrong_send")
             => /\ quizUsers'[u].streak = 0
                /\ quizUsers'[u].qid = 0
                /\ quizUsers'[u].locked = until - (until % TicksPerSecond)
                /\ handlers'[h].out = "wrong"
                /\ handlers'[h].arg = until
      ]_vars

\* an incorrect answer given part of a second past a whole second: its lock
\* is persisted and its message not yet delivered
C6_Witness ==
    \E h \in Handlers :
        /\ handlers[h].pc = "wrong_send"
        /\ handlers[h].arg % TicksPerSecond # 0
        /\ quizUsers[handlers[h].user].locked
               = handlers[h].arg - (handlers[h].arg % TicksPerSecond)
        /\ quizUsers[handlers[h].user].streak = 0

\* C7: after an incorrect answer of u at time T, every start attempt made
\* for u before T + 24 hours is answered with the wait-until message and
\* registers no question.
C7_LockedStartRejected ==
    [][\A h \in Handlers :
         LET u == handlers'[h].user
         IN  ( /\ Started(h)
               /\ lastMiss[u] # NoVal
               /\ now < lastMiss[u] + LockTicks )
             => /\ handlers'[h].out = "wait"
                /\ QUIZ_STATE' = QUIZ_STATE
      ]_vars

\* C8: a start attempt by a non-awarded user whose lock is set and not in
\* the future persists the lock as empty and presents a question; and a lock
\* is cleared only by start_quiz_for_user finding it expired.
C8_ExpiredLockCleared ==
    [][/\ \A h \in Handlers :
            LET u == handlers'[h].user
            IN  ( /\ Began(h)
                  /\ handlers'[h].kind \in {"text", "menu"}
                  /\ u \in DOMAIN quizUsers
                  /\ quizUsers[u].awarded = 0
                  /\ quizUsers[u].locked # NoVal
                  /\ quizUsers[u].locked <= now )
                => /\ quizUsers'[u].locked = NoVal
                   /\ handlers'[h].out = "question"
       /\ \A u \in Ids :
            ( /\ u \in DOMAIN quizUsers
              /\ quizUsers[u].locked # NoVal
              /\ quizUsers'[u].locked = NoVal )
            => /\ quizUsers[u].locked <= now
               /\ \E h \in Handlers : Started(h) /\ FromUserId(handlers'[h]) = u
      ]_vars

\* C9: while a user's persisted lock is in the future, no answer of that
\* user raises the user's streak or adds a ledger row for the user.
C9_LockedCannotScore ==
    [][\A u \in Users :
         LockedNow(u)
         => /\ quizUsers'[u].streak <= quizUsers[u].streak
            /\ RowsOf(coupons', u) = RowsOf(coupons, u)
      ]_vars

\* the stored draft holds a date, a time, a guest bound and a phone
Complete(st) ==
    /\ st.date # NoVal
    /\ st.time # ""
    /\ (st.guests_min # NoVal \/ st.guests_max # NoVal)
    /\ st.phone # ""

\* in this step handler h merged its message into the user's draft
Merged(h) ==
    /\ routers[h].pc \in {"idle", "picker_send"}
    /\ routers'[h].pc \in {"missing_send", "abort_send", "confirm_send"}

\* C10: after a message is merged, the handler is inside finalize_booking if
\* and only if the stored draft holds date, time, a guest bound and phone;
\* otherwise it is sending the prompt that names the missing fields and the
\* reservation table is unchanged.
C10_HandOffIffComplete ==
    [][\A h \in Routers :
         Merged(h)
         => LET st == drafts'[BOOK_STATE'[routers'[h].user]]
            IN  /\ BOOK_STATE'[routers'[h].user] # 0
                /\ routers'[h].pc \in {"abort_send", "confirm_send"} <=> Complete(st)
                /\ ~Complete(st)
                   => /\ routers'[h].pc = "missing_send"
                      /\ routers'[h].out # <<>>
                      /\ bookings' = bookings
      ]_vars

\* one handler has handed a complete draft over and has persisted the
\* reservation while another is prompting for what its draft lacks
C10_Witness ==
    \E h, g \in Routers :
        /\ routers[h].pc = "confirm_send"
        /\ routers[g].pc = "missing_send"
        /\ Len(bookings) = 1

\* the draft holds a date, a time and a guest bound but no phone
PhoneLess(st) ==
    /\ st.date # NoVal
    /\ st.time # ""
    /\ (st.guests_min # NoVal \/ st.guests_max # NoVal)
    /\ st.phone = ""

\* in this step handler h merged the text of user u into the dict `ref` that
\* it read from BOOK_STATE on entry
Processed(h, u, text, ref) ==
    /\ Merged(h)
    /\ \/ /\ routers[h].pc = "idle"
          /\ ref = BOOK_STATE[u]
          /\ universal_router(u, text)
       \/ /\ routers[h].pc = "picker_send"
          /\ routers[h].user = u
          /\ routers[h].text = text
          /\ ref = routers[h].st
          /\ picker_send(h, TRUE)

\* C11: when the draft of a user holds date, time and a guest bound but no
\* phone, and a message without a phone is merged into it, the prompt names
\* exactly one missing item, the phone, no reservation row is added, and the
\* draft stays stored for the user, still without a phone.
C11_OnlyPhoneMissing ==
    [][\A h \in Routers : \A u \in Users : \A text \in TextsOf(u) :
         \A ref \in Refs :
            (/\ PhoneLess(drafts[ref])
             /\ Extracted[text].phone = ""
             /\ Processed(h, u, text, ref))
            => /\ routers'[h].pc = "missing_send"
               /\ routers'[h].out = <<"phone">>
               /\ bookings' = bookings
               /\ BOOK_STATE'[u] = ref
               /\ PhoneLess(drafts'[ref])
      ]_vars

\* a handler is prompting for the phone alone, and the stored draft holds a
\* date, a time and an upper bound of the guests
C11_Witness ==
    \E h \in Routers :
        /\ routers[h].pc = "missing_send"
        /\ routers[h].out = <<"phone">>
        /\ BOOK_STATE[routers[h].user] # 0
        /\ LET st == drafts[BOOK_STATE[routers[h].user]]
           IN  /\ PhoneLess(st)
               /\ st.guests_min = NoVal
               /\ st.guests_max = 2

\* C12: in every draft stored for a user, when both bounds of the guest
\* count are present the lower one does not exceed the upper one.
C12_GuestRangeOrdered ==
    \A u \in Users :
        BOOK_STATE[u] # 0
        => LET st == drafts[BOOK_STATE[u]]
           IN  (st.guests_min # NoVal /\ st.guests_max # NoVal)
               => st.guests_min <= st.guests_max

\* C13: when a user without an open draft sends OneTurn, the handler persists
\* in that step a reservation with date = tomorrow, time "19:00", 4 guests,
\* phone "+79991234567", name "Aleksej" and status new, under the next id,
\* and goes on to the confirmation and the operator notification keyed by
\* that id.
C13_OneTurnBooking ==
    [][\A u \in Users :
         (/\ OneTurn \in TextsOf(u)
          /\ BOOK_STATE[u] = 0
          /\ universal_router(u, OneTurn))
         => LET h == FirstFreeRouter
                row == bookings'[Len(bookings')]
            IN  /\ Len(bookings') = Len(bookings) + 1
                /\ row.id = next_booking_id(load_bookings(bookings))
                /\ row.tg_user_id = u
                /\ row.date = Today(now) + 1
                /\ row.time = "19:00"
                /\ row.guests = 4
                /\ row.guests_range = <<"4">>
                /\ row.phone = "+79991234567"
                /\ row.name = "Aleksej"
                /\ row.status = "new"
                /\ routers'[h].pc = "confirm_send"
                /\ routers'[h].bid = row.id
      ]_vars

\* C14: every reservation that is persisted gets the id (maximum id of the
\* table) + 1, or 1 in an empty table, and in every state the ids of the
\* table are pairwise distinct and increase in the order of creation.
C14_IdsIncrease ==
    [][/\ Len(bookings') > Len(bookings)
          => /\ Len(bookings') = Len(bookings) + 1
             /\ bookings'[Len(bookings')].id =
                    IF bookings = <<>> THEN 1 ELSE MaxId(bookings) + 1
       /\ \A i, j \in DOMAIN bookings' :
             i < j => bookings'[i].id < bookings'[j].id
      ]_vars

\* two reservations are persisted, the first one already confirmed by the
\* operator, while a handler is still inside the second one's finalizer
C14_Witness ==
    /\ Len(bookings) = 2
    /\ bookings[1].id = 1
    /\ bookings[2].id = 2
    /\ bookings[1].status = "confirmed"
    /\ \E h \in Routers : routers[h].pc = "confirm_send" /\ routers[h].bid = 2

\* the fields of a reservation that are followed, but for its status
SameBut(row, old) == [row EXCEPT !.status = old.status] = old

\* C15: the status of a persisted reservation changes only in a step of an
\* approve/reject callback that comes from the operator's chat, and becomes
\* confirmed or canceled; a callback from another chat leaves the table
\* unchanged; an operator callback changes nothing but the status of the row
\* with the given id.
C15_OnlyOperatorChangesStatus ==
    [][/\ (\E i \in DOMAIN bookings :
              i \in DOMAIN bookings' /\ bookings'[i].status # bookings[i].status)
          => \E id \in BookingIds, new_status \in {"confirmed", "canceled"} :
                cb_admin(ADMIN_CHAT_ID, id, new_status)
       /\ \A chat \in Chats, id \in BookingIds :
             \A new_status \in {"confirmed", "canceled"} :
                cb_admin(chat, id, new_status)
                => /\ chat # ADMIN_CHAT_ID => bookings' = bookings
                   /\ DOMAIN bookings' = DOMAIN bookings
                   /\ \A i \in DOMAIN bookings :
                         /\ SameBut(bookings'[i], bookings[i])
                         /\ bookings'[i].status # bookings[i].status
                            => /\ bookings[i].id = id
                               /\ bookings'[i].status = new_status
      ]_vars

\* C16: a persisted reservation is never deleted or lost: every row of the
\* table is still there after every step, with the same id, user, date,
\* time, guests and phone.
C16_RowsKept ==
    [][\A i \in DOMAIN bookings :
         /\ i \in DOMAIN bookings'
         /\ bookings'[i].id = bookings[i].id
         /\ bookings'[i].tg_user_id = bookings[i].tg_user_id
         /\ bookings'[i].date = bookings[i].date
         /\ bookings'[i].time = bookings[i].time
         /\ bookings'[i].guests = bookings[i].guests
         /\ bookings'[i].phone = bookings[i].phone
      ]_vars

\* C17: a text that names weekday n, parsed on a day of weekday w, gives a
\* date 1 to 7 days after that day which falls on weekday n and is not the
\* day itself; for n = w it is 7 days ahead.
C17_WeekdayAhead ==
    \A k \in DOMAIN WeekdayTexts :
        (probe.text \in WeekdayTexts[k] /\ probe.out # <<>>)
        => LET today == Today(now)
               d == probe.out[1]
               n == WEEKDAY_FULL[k][2]
           IN  /\ d # NoVal
               /\ d - today \in 1..7
               /\ Weekday(d) = n
               /\ d # today
               /\ Weekday(today) = n => d = today + 7

\* "on Wednesday", parsed on a Wednesday, gave the Wednesday a week later
C17_Witness ==
    /\ probe.text = "v sredu"
    /\ Weekday(Today(now)) = 2
    /\ probe.out # <<>>
    /\ probe.out[1] = Today(now) + 7

\* the range of guests that a text of MixedRangeTexts or WordRangeTexts
\* carries: the numeric range where there is one, else the range in words
CarriedRange ==
    [text \in MixedRangeTexts \cup WordRangeTexts |->
        CASE text = "3-5, dvoe-troe" -> <<3, 5>>
          [] text = "dvoe ili troe, 5-3" -> <<3, 5>>
          [] text = "dvoe do troih 4 ~ 6" -> <<4, 6>>
          [] text = "troe ili Cetvero, na 6" -> <<3, 4>>
          [] text = "na 6, Cetvero-troe" -> <<3, 4>>
          [] text = "semero, dvoe do pqti" -> <<2, 5>>
          [] text = "dvoe^troe 9" -> <<2, 3>>
          [] text = "nas 2, troe - pqtero, desqtero" -> <<3, 5>>]

\* C18: for a text that holds a numeric range a-b and a single number,
\* extract_guests_range returns (min(a,b), max(a,b)) and not the single
\* number; a numeric range wins over a range in words, and a range in words
\* wins over single values.
C18_RangeWins ==
    probe.out # <<>>
    => /\ \A form \in RangeForms, a \in RangeEnds, b \in RangeEnds,
             n \in BareNumbers :
             probe.text = RangeText(form, a, b, n)
             => LET x == IntAt(a, 1, Len(a))
                    y == IntAt(b, 1, Len(b))
                IN  /\ probe.out[3] = IF x <= y THEN x ELSE y
                    /\ probe.out[4] = IF x <= y THEN y ELSE x
       /\ probe.text \in DOMAIN CarriedRange
          => /\ probe.out[3] = CarriedRange[probe.text][1]
             /\ probe.out[4] = CarriedRange[probe.text][2]

\* day d of month m of year y is a date of the calendar
CalendarDate(y, m, d) ==
    LET leap == (y % 4 = 0 /\ y % 100 # 0) \/ y % 400 = 0
        lengths == <<31, IF leap THEN 29 ELSE 28, 31, 30, 31, 30,
                     31, 31, 30, 31, 30, 31>>
    IN  /\ m \in 1..12
        /\ d >= 1
        /\ d <= lengths[m]

\* C19: a text D.M.YY that is a date of the calendar gives the date with day
\* D, month M and year 2000 + YY; a text D.M (taken in the current year),
\* D.M.YY or D.M.YYYY that is not a date of the calendar gives nothing.
C19_NumericDate ==
    probe.out # <<>>
    => \A d \in DayTexts, m \in MonthTexts, y \in YearTexts,
          sep \in {".", "/"} :
          probe.text = NumDateText(d, m, y, sep)
          => LET D == IntAt(d, 1, Len(d))
                 M == IntAt(m, 1, Len(m))
                 Y == IF y = "" THEN YearOf(Today(now))
                      ELSE IF Len(y) = 2 THEN 2000 + IntAt(y, 1, 2)
                      ELSE IntAt(y, 1, Len(y))
                 got == probe.out[1]
             IN  /\ (Len(y) = 2 /\ CalendarDate(Y, M, D))
                    => /\ got # NoVal
                       /\ DayOf(got) = D
                       /\ MonthOf(got) = M
                       /\ YearOf(got) = Y
                 /\ ~CalendarDate(Y, M, D) => got = NoVal

\* "29.02.24" gave 29 February 2024
C19_Witness ==
    /\ probe.text = NumDateText("29", "02", "24", ".")
    /\ probe.out # <<>>
    /\ probe.out[1] = Ordinal(2024, 2, 29)

\* the handlers that are sending, or are about to send, a message that
\* contains a coupon code: the prize message to the user, then the
\* notification of the operator
Communicating ==
    {h \in Handlers :
        \/ handlers[h].pc = "prize_send"
        \/ handlers[h].pc = "notify_send" /\ handlers[h].out = "admin_coupon"}

\* C20: while a message containing a coupon code is being sent to the user or
\* to the operator, the persisted ledger holds a row with that code.
C20_CodeRecorded ==
    \A h \in Communicating :
        \E i \in DOMAIN coupons : coupons[i].code = handlers[h].code

\* the value a field has after a merge: the extracted one when there is
\* one (it differs from `none`), else the one it had
Kept(new, got, none, old) == new = IF got # none THEN got ELSE old

\* C21: when a handler merges a message into the dict it read from
\* BOOK_STATE on entry (the empty dict when there was none), each of date,
\* time, guests_min, guests_max and phone takes the value extracted from the
\* message when there is one and keeps its value otherwise; name changes
\* only to the name found beside a phone, or, when absent, to the display
\* name.
C21_MergeFieldByField ==
    [][\A h \in Routers : \A u \in Users : \A text \in TextsOf(u) :
         \A ref \in Refs \cup {0} :
            Processed(h, u, text, ref)
            => LET old == IF ref = 0 THEN NoDraft ELSE drafts[ref]
                   new == drafts'[BOOK_STATE'[u]]
                   got == Extracted[text]
               IN  /\ BOOK_STATE'[u] # 0
                   /\ Kept(new.date, got.date[Today(now)], NoVal, old.date)
                   /\ Kept(new.time, got.time, "", old.time)
                   /\ Kept(new.guests_min, got.guests[1], NoVal, old.guests_min)
                   /\ Kept(new.guests_max, got.guests[2], NoVal, old.guests_max)
                   /\ Kept(new.phone, got.phone, "", old.phone)
                   /\ \/ new.name = old.name /\ old.name # ""
                      \/ new.name = got.name /\ got.phone # "" /\ got.name # ""
                      \/ new.name = DisplayName(u) /\ old.name = ""
      ]_vars

\* a draft that held tomorrow's date and three guests has taken the time of
\* "v 21:30" and kept the rest
C21_Witness ==
    \E h \in Routers :
        /\ routers[h].pc = "missing_send"
        /\ routers[h].out = <<"phone">>
        /\ LET st == drafts[BOOK_STATE[routers[h].user]]
           IN  /\ BOOK_STATE[routers[h].user] # 0
               /\ st.time = "21:30"
               /\ st.guests_min = 3
               /\ st.guests_max = 3
               /\ st.date # NoVal
               /\ st.name = "Ivan"

\* handler h is inside finalize_booking, at one of its sends
InFinalizer(h) == routers[h].pc \in {"abort_send", "confirm_send", "admin_send"}

\* in this step handler h, which was inside finalize_booking, ends: it
\* returns, or the exception of a failed send leaves it
FinalizerEnds(h) == InFinalizer(h) /\ routers'[h].pc \in {"idle", "report"}

\* C22: when a handler that handed a draft to finalize_booking ends, no
\* draft is stored for its user.
C22_DraftClearedAfterHandOff ==
    [][\A h \in Routers :
         FinalizerEnds(h) => BOOK_STATE'[routers[h].user] = 0
      ]_vars

\* the recheck of finalize_booking fails on the dict st: date, time, the
\* upper guest bound (the lower one when the upper is absent) or phone is
\* absent or 0.  An absent time is replaced by "20:00" and never fails.
RecheckFails(st) ==
    LET gmax == IF st.guests_max # NoVal THEN st.guests_max ELSE st.guests_min
    IN  st.date = NoVal \/ gmax = NoVal \/ gmax = 0 \/ st.phone = ""

\* C23: a handler whose merged draft has nothing missing but fails the
\* recheck goes to the error prompt with the reservation table unchanged
\* and the draft stored for the user; sending the prompt changes neither.
C23_AbortKeepsDraft ==
    [][\A h \in Routers :
         /\ Merged(h)
            => LET u == routers'[h].user
                   st == drafts'[BOOK_STATE'[u]]
               IN  (BOOK_STATE'[u] # 0 /\ Missing(st) = <<>> /\ RecheckFails(st))
                   => /\ routers'[h].pc = "abort_send"
                      /\ bookings' = bookings
         /\ (routers[h].pc # "abort_send" /\ routers'[h].pc = "abort_send")
            => /\ bookings' = bookings
               /\ BOOK_STATE'[routers'[h].user] # 0
               /\ RecheckFails(drafts'[BOOK_STATE'[routers'[h].user]])
         /\ (routers[h].pc = "abort_send" /\ routers'[h].pc # "abort_send")
            => /\ bookings' = bookings
               /\ BOOK_STATE' = BOOK_STATE
               /\ drafts' = drafts
      ]_vars

\* the error prompt is being sent for a draft with an upper guest bound of 0
C23_Witness ==
    \E h \in Routers :
        /\ routers[h].pc = "abort_send"
        /\ BOOK_STATE[routers[h].user] # 0
        /\ drafts[BOOK_STATE[routers[h].user]].guests_max = 0
        /\ drafts[BOOK_STATE[routers[h].user]].phone # ""

\* a keyword of the k-th intent of INTENT_KEYWORDS occurs in the text
KeywordIn(k, text) ==
    \E key \in INTENT_KEYWORDS[k][2] : Contains(normalize_text(text), key)

\* C24: with a draft open the intent is the first of menu, venue, quiz with
\* a keyword in the text, and book when there is none; with no draft open it
\* is the first of menu, venue, quiz, book with a keyword in the text, and
\* none when there is none.
C24_IntentOrder ==
    probe.out # <<>> /\ probe.text \in IntentTexts
    => LET open == BOOK_STATE[1] # 0
           got == probe.out[1]
           M == KeywordIn(1, probe.text)
           V == KeywordIn(2, probe.text)
           Q == KeywordIn(3, probe.text)
           B == KeywordIn(4, probe.text)
       IN  got = IF M THEN "menu"
                 ELSE IF V THEN "venue"
                 ELSE IF Q THEN "quiz"
                 ELSE IF open THEN "book"
                 ELSE IF B THEN "book"
                 ELSE ""

\* with a draft open, a text with keywords of book and quiz, book first,
\* was classified as quiz
C24_Witness ==
    /\ probe.text = " stolik priz"
    /\ BOOK_STATE[1] # 0
    /\ probe.out = <<"quiz">>

\* in this step handler h took up an answer click quoting a question id that
\* is absent from the active-question table, from a user who is not awarded
ClosedClick(h) ==
    /\ Began(h)
    /\ handlers'[h].kind = "answer"
    /\ QUIZ_STATE[handlers'[h].qid] = ""
    /\ ~Awarded(handlers'[h].user)

\* C25: an answer callback from a non-awarded user that quotes a question id
\* absent from the active-question table changes neither the user's streak
\* nor lockedUntil nor the coupon ledger; the user is told the question is
\* closed, and a new start attempt is made immediately for that same user
\* (it reads the user's row: a wait message when the user is locked, and a
\* presented question is recorded as the user's current question).
C25_ClosedQuestionRestarts ==
    [][\A h \in Handlers :
         LET u == handlers'[h].user
             v == handlers[h].user
         IN  /\ ClosedClick(h)
                => /\ get_user_quiz_state(quizUsers', u).streak
                        = get_user_quiz_state(quizUsers, u).streak
                   /\ get_user_quiz_state(quizUsers', u).locked
                        = get_user_quiz_state(quizUsers, u).locked
                   /\ coupons' = coupons
                   /\ handlers'[h].pc = "closed_send"
                   /\ handlers'[h].out = "closed"
             /\ (handlers[h].pc = "closed_send" /\ closed_send(h, TRUE))
                => /\ Started(h)
                   /\ LockedNow(v) => handlers'[h].out = "wait"
                   /\ handlers'[h].out = "question"
                        => get_user_quiz_state(quizUsers', v).qid = handlers'[h].arg
      ]_vars

\* C26: a presented question is answerable at most once: once an answer
\* callback quoting question id q has been evaluated as correct or incorrect,
\* any later answer callback quoting q that arrives before q is presented
\* again is treated as already closed (or turned away as already awarded) and
\* changes no streak.
C26_AnswerableOnce ==
    [][\A h \in Handlers :
         ( /\ Began(h)
           /\ handlers'[h].kind = "answer"
           /\ handlers'[h].qid \in hist.answered )
         => /\ handlers'[h].out \in {"closed", "awarded"}
            /\ \A u \in Ids : get_user_quiz_state(quizUsers', u).streak
                                = get_user_quiz_state(quizUsers, u).streak
      ]_vars

\* C27: a presented question stays registered until it is answered: with a
\* single user playing, whenever every handler has finished and the question
\* presented last (id q) has not been answered since, q is in the
\* active-question table, also when the question chained after a correct
\* answer has the id of the question just answered.
C27_PresentedStaysRegistered ==
    ( /\ \A h \in Handlers : handlers[h].pc = "idle"
      /\ Cardinality(hist.players) <= 1
      /\ hist.last # 0
      /\ hist.last \notin hist.answered )
    => QUIZ_STATE[hist.last] # ""

\* in this step a send of the answer handler h raised, other than the sends
\* whose failure is swallowed where it is made (the wait message of the
\* chained start, notify_admin_coupon) and other than the retry prompt itself
AnswerSendRaised(h) ==
    /\ handlers[h].kind = "answer"
    /\ handlers[h].out \notin {"retry", "wait", "admin_coupon"}
    /\ \/ right_send(h, FALSE)
       \/ prize_send(h, FALSE)
       \/ notify_send(h, FALSE)
       \/ wrong_send(h, FALSE)
       \/ closed_send(h, FALSE)
       \/ start_send(h, FALSE)
       \/ tail_send(h, FALSE)

\* C28: when answer handling fails at a step with an unexpected exception,
\* the failure is caught and the user gets the generic retry prompt, and the
\* user's persisted quiz state is not left half-updated: not with streak at
\* the goal and awarded = 0, not with awarded = 1 and no ledger row of the
\* user, and (no other handler being in flight) not with the streak
\* increment of this answer, which the user was not told about.
C28_FailureLeavesNoHalfUpdate ==
    [][\A h \in Handlers :
         LET v == handlers[h].user
             row == get_user_quiz_state(quizUsers', v)
             told == IF handlers[h].out = "right"
                     THEN StreakGoal - handlers[h].arg - 1
                     ELSE handlers[h].st.streak - 1
         IN  AnswerSendRaised(h)
             => /\ handlers'[h].pc = "tail"
                /\ handlers'[h].out = "retry"
                /\ ~(row.streak >= StreakGoal /\ row.awarded = 0)
                /\ row.awarded = 1 => RowsOf(coupons', v) # {}
                /\ ( /\ handlers[h].out \in {"right", "prize"}
                     /\ \A g \in Handlers \ {h} : handlers[g].pc = "idle" )
                   => row.streak # told + 1
      ]_vars

\* C29: each completed draft produces exactly one reservation: however the
\* handlers of a user's messages interleave (further messages handled while
\* a finalization is suspended at a send, after the row was written and
\* before the draft is removed), a reservation row is never written from a
\* draft from which a row was written already, so the rows created are as
\* many as the distinct drafts completed.
C29_OneReservationPerDraft ==
    [][\A u \in Users :
         ( /\ Len(bookings') > Len(bookings)
           /\ bookings'[Len(bookings')].tg_user_id = u )
         => BOOK_STATE'[u] \notin hist.saved
      ]_vars

\* C30: for every catalog row with at least one non-empty option, the
\* correct letter a start attempt registers in the active-question table is
\* the letter of one of the option buttons presented for the question, so
\* that every presented question has a button that is evaluated as correct.
C30_CorrectLetterHasButton ==
    Len(probe.out) = 2 => probe.out[1] \in probe.out[2]

====
